---------------------------- MODULE Spec2Model ----------------------------
(***************************************************************************)
(* A model of the sqldatabase package: the SQL transpiler                  *)
(* (sqltranspiler.py), the condition tree (sqlcondition.py), the record    *)
(* parameter pipeline (sqlrecord.py), statement composition                *)
(* (sqlstatement.py) and the database facade (sqldatabase.py).             *)
(*                                                                         *)
(* SQL text is a sequence of one-character strings, so that the regular    *)
(* expressions and the str.find / str.replace calls of the transpiler are  *)
(* computed character by character, as the code computes them.             *)
(***************************************************************************)
EXTENDS Integers, Sequences, FiniteSets, TLC

(***************************************************************************)
(* Bounds of the model.                                                    *)
(***************************************************************************)
MaxTokens == 3        \* tokens of a template handed to the transpiler
MaxParameters == 2    \* entries of a caller-supplied parameter collection
NumTables == 3        \* tables of a database
MaxBatch == 2         \* records handed to one insert_records call
MaxValues == 3        \* values handed to one SQLCondition
MaxLeaves == 2        \* leaf conditions built by one application
NumSlots == 2         \* conditions an application holds on to

(***************************************************************************)
(* Generic helpers.                                                        *)
(***************************************************************************)
Max(S) == CHOOSE x \in S : \A y \in S : y <= x
Min(S) == CHOOSE x \in S : \A y \in S : x <= y
Range(s) == {s[i] : i \in 1..Len(s)}

RECURSIVE SeqsUpTo(_, _)
\* all sequences over S of length 0..n
SeqsUpTo(S, n) ==
    IF n = 0 THEN {<<>>}
    ELSE LET shorter == SeqsUpTo(S, n - 1)
         IN shorter \cup {Append(s, x) : s \in shorter, x \in S}

\* no element occurs twice in s
Injective(s) == \A i, j \in 1..Len(s) : i # j => s[i] # s[j]

(***************************************************************************)
(* Character classes of the regular expressions in sqltranspiler.py.       *)
(***************************************************************************)
Letters ==
    {"a","b","c","d","e","f","g","h","i","j","k","l","m",
     "n","o","p","q","r","s","t","u","v","w","x","y","z",
     "A","B","C","D","E","F","G","H","I","J","K","L","M",
     "N","O","P","Q","R","S","T","U","V","W","X","Y","Z"}
DigitChars == <<"0","1","2","3","4","5","6","7","8","9">>
Digits == Range(DigitChars)
NameStart == Letters \cup {"_"}            \* [a-zA-Z_]
NameChar == Letters \cup Digits \cup {"_"} \* [a-zA-Z0-9_]
Sigils == {":", "@", "$"}                  \* [:@$]

\* ESQLDialect
MYSQL == "mysql"
POSTGRESQL == "postgres"
SQLITE == "sqlite"
SQLSERVER == "tsql"
ESQLDialect == {MYSQL, POSTGRESQL, SQLITE, SQLSERVER}

(***************************************************************************)
(* Python's str and int primitives on character sequences.                 *)
(***************************************************************************)
RECURSIVE IntToChars(_)
\* str(n) for n >= 0
IntToChars(n) ==
    IF n < 10 THEN <<DigitChars[n + 1]>>
    ELSE IntToChars(n \div 10) \o <<DigitChars[(n % 10) + 1]>>

DigitValue(c) == CHOOSE d \in 0..9 : DigitChars[d + 1] = c

RECURSIVE CharsToInt(_)
\* int(s) for a non-empty digit string
CharsToInt(s) ==
    IF Len(s) = 1 THEN DigitValue(s[1])
    ELSE 10 * CharsToInt(SubSeq(s, 1, Len(s) - 1)) + DigitValue(s[Len(s)])

RECURSIVE lstrip(_, _)
\* s.lstrip(chars)
lstrip(s, chars) ==
    IF s # <<>> /\ Head(s) \in chars THEN lstrip(Tail(s), chars) ELSE s

\* s.find(sub, start): 0-based index of the first occurrence at or after
\* start, -1 when there is none
find(s, sub, start) ==
    LET hits == {p \in start..(Len(s) - Len(sub)) :
                    SubSeq(s, p + 1, p + Len(sub)) = sub}
    IN IF hits = {} THEN -1 ELSE Min(hits)

\* s[:location] and s[location:] for location >= -1 (Python slicing: a
\* negative index counts from the end)
SliceTo(s, location) ==
    IF location >= 0 THEN SubSeq(s, 1, Min({location, Len(s)}))
    ELSE SubSeq(s, 1, Len(s) - 1)
SliceFrom(s, location) ==
    IF location >= 0 THEN SubSeq(s, location + 1, Len(s))
    ELSE SubSeq(s, Len(s), Len(s))

\* s.replace(old, new, 1)
replace_first(s, old, new) ==
    LET p == find(s, old, 0)
    IN IF p = -1 THEN s
       ELSE SubSeq(s, 1, p) \o new \o SubSeq(s, p + Len(old) + 1, Len(s))

(***************************************************************************)
(* SQLTranspiler: the placeholder scanners.                                *)
(***************************************************************************)
RECURSIVE QuotedBody(_, _, _, _)
\* s[from..to] matches (?:qq|[^q])* , the inside of a quoted string
QuotedBody(s, from, to, q) ==
    IF from > to THEN TRUE
    ELSE IF s[from] # q THEN QuotedBody(s, from + 1, to, q)
    ELSE from + 1 <= to /\ s[from + 1] = q /\ QuotedBody(s, from + 2, to, q)

\* the index of the closing quote of the string literal the pattern of
\* _remove_string_literals matches at index i (greedy: the longest), 0 when
\* no literal starts at i
StringLiteralEnd(s, i) ==
    IF s[i] \notin {"'", "\""} THEN 0
    ELSE LET ends == {j \in (i + 1)..Len(s) :
                         s[j] = s[i] /\ QuotedBody(s, i + 1, j - 1, s[i])}
         IN IF ends = {} THEN 0 ELSE Max(ends)

RECURSIVE RemoveFrom(_, _)
RemoveFrom(s, i) ==
    IF i > Len(s) THEN <<>>
    ELSE LET e == StringLiteralEnd(s, i)
         IN IF e > 0 THEN RemoveFrom(s, e + 1)
            ELSE <<s[i]>> \o RemoveFrom(s, i + 1)

\* a variant that leaves the literals in the text
_remove_string_literals_Kept(sql) == sql

\* pattern.sub("", sql)
_remove_string_literals(sql) == RemoveFrom(sql, 1)

RECURSIVE ClassRunEnd(_, _, _)
\* the last index of the run of characters of class cls that starts at i
ClassRunEnd(s, i, cls) ==
    IF i + 1 <= Len(s) /\ s[i + 1] \in cls THEN ClassRunEnd(s, i + 1, cls) ELSE i

\* the pattern (?<!:)[:@$][a-zA-Z_][a-zA-Z0-9_]* matches at index i
NamedMatchAt(s, i) ==
    /\ s[i] \in Sigils
    /\ (i = 1 \/ s[i - 1] # ":")
    /\ i + 1 <= Len(s)
    /\ s[i + 1] \in NameStart

RECURSIVE FindAllNamed(_, _)
FindAllNamed(s, i) ==
    IF i > Len(s) THEN <<>>
    ELSE IF NamedMatchAt(s, i)
         THEN LET e == ClassRunEnd(s, i + 1, NameChar)
              IN <<SubSeq(s, i, e)>> \o FindAllNamed(s, e + 1)
         ELSE FindAllNamed(s, i + 1)

_find_named_parameters(sql) == FindAllNamed(_remove_string_literals(sql), 1)

\* the pattern [$@]\d+ matches at index i
OrdinalMatchAt(s, i) ==
    /\ s[i] \in {"$", "@"}
    /\ i + 1 <= Len(s)
    /\ s[i + 1] \in Digits

RECURSIVE FindAllPositional(_, _)
\* re.findall(r"[$@]\d+|\?", s)
FindAllPositional(s, i) ==
    IF i > Len(s) THEN <<>>
    ELSE IF OrdinalMatchAt(s, i)
         THEN LET e == ClassRunEnd(s, i + 1, Digits)
              IN <<SubSeq(s, i, e)>> \o FindAllPositional(s, e + 1)
         ELSE IF s[i] = "?"
              THEN <<<<"?">>>> \o FindAllPositional(s, i + 1)
              ELSE FindAllPositional(s, i + 1)

_find_positional_placeholders(sql) ==
    FindAllPositional(_remove_string_literals(sql), 1)

_find_named_parameters_and_positional_placeholders(sql) ==
    _find_named_parameters(sql) \o _find_positional_placeholders(sql)

_is_positional_placeholder(value) ==
    \/ value = <<"?">>
    \/ /\ Len(value) >= 2
       /\ value[1] \in {"$", "@"}
       /\ \A i \in 2..Len(value) : value[i] \in Digits

_is_named_parameter(value) ==
    /\ Len(value) >= 2
    /\ value[1] \in Sigils
    /\ value[2] \in NameStart
    /\ \A i \in 3..Len(value) : value[i] \in NameChar

(***************************************************************************)
(* Parameter collections.  A Python dict is an insertion-ordered sequence  *)
(* of <<key, value>> pairs with distinct keys; a tuple or list is a        *)
(* sequence of values, held as pairs with the empty key so that every      *)
(* collection has items of one shape; None has no items.                   *)
(***************************************************************************)
NoKey == <<>>
Dict(items) == [kind |-> "dict", items |-> items]
Tuple(values) ==
    [kind |-> "seq", items |-> [i \in 1..Len(values) |-> <<NoKey, values[i]>>]]
None == [kind |-> "none", items |-> <<>>]

DictKeys(items) == [i \in 1..Len(items) |-> items[i][1]]
DictValues(items) == [i \in 1..Len(items) |-> items[i][2]]
DictHas(items, key) == \E i \in 1..Len(items) : items[i][1] = key
DictGet(items, key) == items[CHOOSE i \in 1..Len(items) : items[i][1] = key][2]

\* d[key] = value: an existing key keeps its position, a new key is appended
DictSet(items, key, value) ==
    IF DictHas(items, key)
    THEN [i \in 1..Len(items) |->
            IF items[i][1] = key THEN <<key, value>> ELSE items[i]]
    ELSE Append(items, <<key, value>>)

RECURSIVE DictUpdate(_, _)
\* d.update(other), also d | other
DictUpdate(items, other) ==
    IF other = <<>> THEN items
    ELSE DictUpdate(DictSet(items, other[1][1], other[1][2]), Tail(other))

(***************************************************************************)
(* SQLTranspiler: the rewriting of the rendered text.                      *)
(***************************************************************************)
PARAMETER_ == <<"p","a","r","a","m","e","t","e","r","_">>

\* the replacement of the index-th (0-based) token of the found list
Replacement(parameter_or_placeholder, index, output_dialect) ==
    IF output_dialect = SQLITE
    THEN IF _is_positional_placeholder(parameter_or_placeholder)
         THEN <<":">> \o PARAMETER_ \o IntToChars(index + 1)
         ELSE <<":">> \o lstrip(parameter_or_placeholder, Sigils)
    ELSE IF output_dialect = POSTGRESQL
         THEN <<"$">> \o IntToChars(index + 1)
         ELSE <<"?">>

RECURSIVE UpdateLoop(_, _, _, _, _)
\* the for loop of _update_named_parameters_and_positional_placeholders;
\* index is 1-based here, search_location is Python's 0-based offset
UpdateLoop(sql, found, index, search_location, output_dialect) ==
    IF index > Len(found) THEN sql
    ELSE LET parameter_or_placeholder == found[index]
             location == find(sql, parameter_or_placeholder, search_location)
             replacement ==
                 Replacement(parameter_or_placeholder, index - 1, output_dialect)
         IN UpdateLoop(
                SliceTo(sql, location)
                    \o replace_first(SliceFrom(sql, location),
                                     parameter_or_placeholder, replacement),
                found, index + 1, location + Len(replacement), output_dialect)

_update_named_parameters_and_positional_placeholders(sql, output_dialect) ==
    UpdateLoop(sql, _find_named_parameters_and_positional_placeholders(sql),
               1, 0, output_dialect)

\* sqlglot's parse_one followed by Expression.sql(dialect): the external
\* parser and generator, taken to reproduce the text of a statement that
\* has no RETURNING clause, placeholders and literals included
RenderSql(sql, output_dialect) == sql

\* transpile_sql for a statement that is no SQL Server DELETE ... OUTPUT
transpile_sql(sql, output_dialect) ==
    _update_named_parameters_and_positional_placeholders(
        RenderSql(sql, output_dialect), output_dialect)

(***************************************************************************)
(* SQLTranspiler: the reconciliation of the parameters.  A result is       *)
(* [status, value]: status "ok" with the returned value, or the exception  *)
(* raised.                                                                 *)
(***************************************************************************)
Ok(value) == [status |-> "ok", value |-> value]
Raised(exception) == [status |-> exception, value |-> None]

RECURSIVE SortDict(_, _, _)
\* the dict comprehension of _sort_parameters
SortDict(found, items, acc) ==
    IF found = <<>> THEN Ok(Dict(acc))
    ELSE LET key == lstrip(Head(found), Sigils)
         IN IF ~DictHas(items, key) THEN Raised("KeyError")
            ELSE SortDict(Tail(found), items,
                          DictSet(acc, key, DictGet(items, key)))

\* a variant that takes the ordinal itself as the index
OrdinalIndexes_OneBased(placeholders) ==
    LET marked == SelectSeq(placeholders, LAMBDA ph : ph[1] = "$")
    IN [i \in 1..Len(marked) |-> CharsToInt(lstrip(marked[i], {"$"}))]

\* placeholders that start with "$", as 0-based indexes
OrdinalIndexes(placeholders) ==
    LET marked == SelectSeq(placeholders, LAMBDA ph : ph[1] = "$")
    IN [i \in 1..Len(marked) |-> CharsToInt(lstrip(marked[i], {"$"})) - 1]

\* parameters[index] of a Python sequence: a negative index counts from
\* the end, an index out of range raises
InRange(items, index) == -Len(items) <= index /\ index < Len(items)
Subscript(items, index) ==
    IF index >= 0 THEN items[index + 1] ELSE items[Len(items) + index + 1]

_sort_parameters(sql, parameters) ==
    IF parameters.kind = "dict"
    THEN SortDict(_find_named_parameters(sql), parameters.items, <<>>)
    ELSE LET placeholders == _find_positional_placeholders(sql)
             indexes == OrdinalIndexes(placeholders)
             values == DictValues(parameters.items)
         IN IF Len(indexes) = Len(values)
            THEN IF \A i \in 1..Len(indexes) : InRange(values, indexes[i])
                 THEN Ok(Tuple([i \in 1..Len(indexes) |->
                                   Subscript(values, indexes[i])]))
                 ELSE Raised("IndexError")
            ELSE IF Len(indexes) = 0
                 THEN Ok(Tuple(values))
                 ELSE Raised("AssertionError")

\* the conversion between dict and sequence at the end of
\* transpile_parameters
ConvertParameters(parameters, output_dialect) ==
    IF parameters.kind = "dict" /\ output_dialect \in {SQLSERVER, POSTGRESQL, MYSQL}
    THEN Tuple(DictValues(parameters.items))
    ELSE IF parameters.kind = "seq" /\ output_dialect = SQLITE
         THEN Dict([i \in 1..Len(parameters.items) |->
                       <<PARAMETER_ \o IntToChars(i), parameters.items[i][2]>>])
         ELSE parameters

transpile_parameters(sql, parameters, output_dialect) ==
    LET sorted == IF parameters.kind = "none" THEN Ok(Tuple(<<>>))
                  ELSE _sort_parameters(sql, parameters)
    IN IF sorted.status = "ok"
       THEN Ok(ConvertParameters(sorted.value, output_dialect))
       ELSE sorted

\* transpile: [status, sql, parameters]
transpile(sql, parameters, output_dialect) ==
    LET transpiled_parameters == transpile_parameters(sql, parameters, output_dialect)
    IN [status |-> transpiled_parameters.status,
        sql |-> IF transpiled_parameters.status = "ok"
                THEN transpile_sql(sql, output_dialect) ELSE <<>>,
        parameters |-> transpiled_parameters.value]

(***************************************************************************)
(* The templates and parameter collections handed to the transpiler.  A    *)
(* template is a sequence of tokens separated by single spaces; the kind   *)
(* of a token records what the author of the template wrote, independently *)
(* of the scanners above.                                                  *)
(***************************************************************************)
Token(kind, text) == [kind |-> kind, text |-> text]
TemplateTokens ==
    { Token("named", <<":", "a">>),
      Token("named", <<":", "b">>),
      Token("anonymous", <<"?">>),
      Token("ordinal", <<"$", "1">>),
      Token("ordinal", <<"$", "2">>),
      Token("literal", <<"'", ":", "a", "'">>),
      Token("literal", <<"\"", "?", "\"">>),
      Token("text", <<"x", ":", ":", "i">>) }
PlaceholderKinds == {"named", "anonymous", "ordinal"}

RECURSIVE TemplateSql(_)
\* " ".join(token texts)
TemplateSql(tokens) ==
    IF tokens = <<>> THEN <<>>
    ELSE IF Len(tokens) = 1 THEN tokens[1].text
    ELSE tokens[1].text \o <<" ">> \o TemplateSql(Tail(tokens))

Templates == SeqsUpTo(TemplateTokens, MaxTokens) \ {<<>>}

ParameterNames == {<<"a">>, <<"b">>}
ParameterValues == {18, 65}
InputParameters ==
    {None}
    \cup {Tuple(values) : values \in SeqsUpTo(ParameterValues, MaxParameters)}
    \cup {Dict(items) : items \in
            {d \in SeqsUpTo(ParameterNames \X ParameterValues, MaxParameters) :
                Injective(DictKeys(d))}}

(***************************************************************************)
(* The state.  Each part of the package has its own variables; a           *)
(* specification exercises one part and leaves the others idle.            *)
(***************************************************************************)
VARIABLES
    template,             \* the tokens of the template passed as sql
    sql,                  \* transpile's sql argument
    parameters,           \* transpile's parameters argument
    output_dialect,       \* SQLTranspiler.output_dialect
    transpile_pc,         \* "idle", "called" or "returned"
    sorted_parameters,    \* what _sort_parameters returned or raised
    transpiled            \* what transpile returned or raised

VARIABLES
    tables,               \* SQLDatabase.tables
    references,           \* table -> the tables its foreign keys point to
    if_exists,            \* drop_all_tables' argument
    drop_pc,              \* "idle", "called" or "returned"
    unsorted_tables,      \* drop_all_tables' local
    sorted_tables,        \* drop_all_tables' local
    drop_statements,      \* the DROP TABLE statements executed, in order
    committed             \* whether commit() was called

VARIABLES
    dialect,              \* SQLDatabase.dialect
    records,              \* insert_records' argument
    insert_pc,            \* "idle", "called", "looping" or "returned"
    insert_statement,     \* insert_records' local
    rendered,             \* how often the statement template was rendered
    executed,             \* the (sql, parameters) handed to the driver
    driver_rows,          \* per execution, the id the driver returned or 0
    ids,                  \* insert_records' local
    inserted              \* what insert_records returned or raised

VARIABLES
    leaf_input,           \* the arguments of a SQLCondition(...) call
    leaf,                 \* what that call returned or raised
    conditions,           \* slot -> the condition object held there
    created,              \* how many leaf conditions were constructed
    merged                \* the last merge of two parameter maps

transpiler_vars ==
    <<template, sql, parameters, output_dialect, transpile_pc,
      sorted_parameters, transpiled>>

drop_vars ==
    <<tables, references, if_exists, drop_pc, unsorted_tables,
      sorted_tables, drop_statements, committed>>

insert_vars ==
    <<dialect, records, insert_pc, insert_statement, rendered, executed,
      driver_rows, ids, inserted>>

condition_vars == <<leaf_input, leaf, conditions, created, merged>>

VARIABLES
    tables_class,         \* the classes in the order the tables class lists them
    column_objects,       \* every SQLColumn object; a column's id is its index
    table_objects,        \* every SQLTable object; a table's id is its index
    data_type_objects,    \* every SQLDataType object
    database_objects,     \* every SQLDatabase object
    columns_classes,      \* class -> the columns its columns class declares
    columns_containers,   \* class -> the instances of its columns class
    class_tables,         \* class -> the instances of its table class
    tables_containers,    \* the instances of the tables class
    operations,           \* constructions made after the declarations
    raised,               \* the exception of the last construction, "" if none
    joined                \* what the last table.join(other) returned or raised

schema_vars ==
    <<tables_class, column_objects, table_objects, data_type_objects,
      database_objects,
      columns_classes, columns_containers, class_tables, tables_containers,
      operations, raised, joined>>

NotJoined ==
    [status |-> "none", self |-> 0, table |-> 0, left |-> 0, right |-> 0]

SchemaIdle ==
    /\ tables_class = <<>>
    /\ column_objects = <<>>
    /\ table_objects = <<>>
    /\ data_type_objects = <<>>
    /\ database_objects = <<>>
    /\ columns_classes = <<>>
    /\ columns_containers = <<>>
    /\ class_tables = <<>>
    /\ tables_containers = <<>>
    /\ operations = 0
    /\ raised = ""
    /\ joined = NotJoined

VARIABLES
    conv_item,            \* the column a value belongs to
    conv_value,           \* the value in Python
    from_database,        \* from_database_value(item, to_database_value(item, value))
    from_json             \* from_json_value(item, to_json_value(item, value))

conversion_vars == <<conv_item, conv_value, from_database, from_json>>

ConversionIdle ==
    /\ conv_item = <<>>
    /\ conv_value = <<>>
    /\ from_database = <<>>
    /\ from_json = <<>>

VARIABLES
    alias_database,       \* the database an alias is resolved in
    alias_item,           \* the column or function the alias is taken of
    resolved              \* _get_item_by_alias(item.alias, database)

alias_vars == <<alias_database, alias_item, resolved>>

AliasIdle ==
    /\ alias_database = <<>>
    /\ alias_item = <<>>
    /\ resolved = <<>>

VARIABLES
    write_operation,      \* insert_records, update_records or delete_records
    write_records,        \* how many records the call was given
    write_pc,             \* "idle", "called" or "returned"
    cursors,              \* per execution, what the driver answered
    connection_calls,     \* the calls made on the connection
    fetched_ids,          \* insert_records' local ids
    write_returned        \* what the call returned or raised

write_vars ==
    <<write_operation, write_records, write_pc, cursors, connection_calls,
      fetched_ids, write_returned>>

WriteIdle ==
    /\ write_operation = ""
    /\ write_records = 0
    /\ write_pc = "idle"
    /\ cursors = <<>>
    /\ connection_calls = <<>>
    /\ fetched_ids = <<>>
    /\ write_returned = <<>>

VARIABLES
    parsed_sql,           \* the parsed statement handed to the transpiler
    target_dialect,       \* SQLTranspiler.output_dialect
    updated               \* the updated statement and the text returned

returning_vars == <<parsed_sql, target_dialect, updated>>

ReturningIdle ==
    /\ parsed_sql = <<>>
    /\ target_dialect = ""
    /\ updated = <<>>

VARIABLES
    filter_input,         \* left, operator member and values of one condition
    filter_condition,     \* what SQLCondition(left, operator, *values) gave
    filter_sql            \* what to_sql() of that condition gave

filter_vars == <<filter_input, filter_condition, filter_sql>>

\* a column object: its name and the fully qualified name of its table,
\* <<>> while the column has no table
ColumnObject(name, table_name) == [name |-> name, table |-> table_name]
NoColumn == ColumnObject(<<>>, <<>>)

\* a text that was returned, and an exception that was raised instead
Text(text) == [status |-> "ok", text |-> text]
TextRaises(exception) == [status |-> exception, text |-> <<>>]
NoText == [status |-> "none", text |-> <<>>]

\* the condition object after __init__, or the exception __init__ raised
ConditionObject(status, left, operator, values_to_sql, parameter_map) ==
    [status |-> status, left |-> left, operator |-> operator,
     _values_to_sql |-> values_to_sql, parameters |-> parameter_map]
NotConstructed == ConditionObject("none", NoColumn, "", <<>>, <<>>)

FilterIdle ==
    /\ filter_input = <<>>
    /\ filter_condition = NotConstructed
    /\ filter_sql = NoText

VARIABLES
    parse_cache,          \* SQLTranspiler._cache: the entries, oldest first
    expression_objects,   \* the parsed statements the entries point at
    cache_call,           \* the last transpile_sql call and what it gave
    cache_calls           \* how many transpile_sql calls were made

cache_vars == <<parse_cache, expression_objects, cache_call, cache_calls>>

NoCall ==
    [sql |-> <<>>, dialect |-> "", target |-> "", hit |-> FALSE, parsed |-> 0,
     status |-> "none", text |-> <<>>]

CacheIdle ==
    /\ parse_cache = <<>>
    /\ expression_objects = <<>>
    /\ cache_call = NoCall
    /\ cache_calls = 0

VARIABLES
    shared_column,        \* the column the conditions are constructed on
    constructions         \* per thread: the call, its position, its draws
                          \* of uuid4() and the condition object so far

concurrent_vars == <<shared_column, constructions>>

ConcurrentIdle ==
    /\ shared_column = NoColumn
    /\ constructions = <<>>

VARIABLES
    tx_operation,         \* the method of SQLDatabase that was called
    tx_tables,            \* self.tables, for the calls over all tables
    tx_references,        \* the tables each of them references
    tx_pc,                \* "ordering", "executing", "returned", "raised"
    tx_unsorted,          \* drop_all_tables' unsorted_tables
    tx_sorted,            \* the tables whose statements the call executes,
                          \* in its order; 0 for a statement of another kind
    tx_done,              \* the tables whose statements were executed
    tx_calls,             \* the calls made on the connection
    tx_raised             \* the exception that ended the call

transaction_vars ==
    <<tx_operation, tx_tables, tx_references, tx_pc, tx_unsorted, tx_sorted,
      tx_done, tx_calls, tx_raised>>

TransactionIdle ==
    /\ tx_operation = ""
    /\ tx_tables = {}
    /\ tx_references = <<>>
    /\ tx_pc = "idle"
    /\ tx_unsorted = {}
    /\ tx_sorted = <<>>
    /\ tx_done = <<>>
    /\ tx_calls = <<>>
    /\ tx_raised = ""

vars ==
    <<transpiler_vars, drop_vars, insert_vars, condition_vars,
      schema_vars, conversion_vars, alias_vars, write_vars,
      returning_vars, filter_vars, cache_vars, concurrent_vars,
      transaction_vars>>

NoResult == [status |-> "none", value |-> None]

TranspilerIdle ==
    /\ template = <<>>
    /\ sql = <<>>
    /\ parameters = None
    /\ output_dialect = SQLITE
    /\ transpile_pc = "idle"
    /\ sorted_parameters = NoResult
    /\ transpiled = [status |-> "none", sql |-> <<>>, parameters |-> None]

DropIdle ==
    /\ tables = {}
    /\ references = <<>>
    /\ if_exists = FALSE
    /\ drop_pc = "idle"
    /\ unsorted_tables = {}
    /\ sorted_tables = <<>>
    /\ drop_statements = <<>>
    /\ committed = FALSE

NoStatement ==
    [dialect |-> SQLITE, columns |-> <<>>, template_parameters |-> <<>>,
     template_sql |-> <<>>]

NotInserted == [status |-> "none", ids |-> <<>>, none |-> FALSE]

InsertIdle ==
    /\ dialect = SQLITE
    /\ records = <<>>
    /\ insert_pc = "idle"
    /\ insert_statement = NoStatement
    /\ rendered = 0
    /\ executed = <<>>
    /\ driver_rows = <<>>
    /\ ids = <<>>
    /\ inserted = NotInserted

\* a condition object: its parameters, and the leaf conditions it is made
\* of, each with the parameter names generated for it
NoCondition == [status |-> "none", parameters |-> <<>>, leaves |-> {}]

NotMerged == [kind |-> "none", left |-> <<>>, right |-> <<>>, result |-> <<>>]

ConditionIdle ==
    /\ leaf_input = [left |-> <<>>, operator |-> "", right |-> <<>>]
    /\ leaf = NoCondition
    /\ conditions = [slot \in 1..NumSlots |-> NoCondition]
    /\ created = 0
    /\ merged = NotMerged

(***************************************************************************)
(* SQLTranspiler.transpile on caller-supplied templates and parameters.    *)
(***************************************************************************)
\* a caller is about to call SQLTranspiler(output_dialect).transpile(sql,
\* parameters)
InitTranspile ==
    /\ template \in Templates
    /\ sql = TemplateSql(template)
    /\ parameters \in InputParameters
    /\ output_dialect \in ESQLDialect
    /\ transpile_pc = "called"
    /\ sorted_parameters = NoResult
    /\ transpiled = [status |-> "none", sql |-> <<>>, parameters |-> None]
    /\ DropIdle
    /\ InsertIdle
    /\ ConditionIdle
    /\ SchemaIdle
    /\ ConversionIdle
    /\ AliasIdle
    /\ WriteIdle
    /\ ReturningIdle
    /\ FilterIdle
    /\ CacheIdle
    /\ ConcurrentIdle
    /\ TransactionIdle

Transpile ==
    /\ transpile_pc = "called"
    /\ transpile_pc' = "returned"
    /\ sorted_parameters' =
           IF parameters.kind = "none" THEN NoResult
           ELSE _sort_parameters(sql, parameters)
    /\ transpiled' = transpile(sql, parameters, output_dialect)
    /\ UNCHANGED <<template, sql, parameters, output_dialect>>
    /\ UNCHANGED <<drop_vars, insert_vars, condition_vars, schema_vars, conversion_vars, alias_vars, write_vars, returning_vars, filter_vars, cache_vars, concurrent_vars, transaction_vars>>

NextTranspile == Transpile

SpecTranspile == InitTranspile /\ [][NextTranspile]_vars

(***************************************************************************)
(* What the claims about the transpiler speak of.                          *)
(***************************************************************************)
\* the placeholder tokens the template was written with, left to right
TemplatePlaceholders ==
    SelectSeq(template, LAMBDA t : t.kind \in PlaceholderKinds)

RECURSIVE ScanPlaceholders(_, _)
\* the placeholder tokens of a text without string literals, left to right
ScanPlaceholders(s, i) ==
    IF i > Len(s) THEN <<>>
    ELSE IF NamedMatchAt(s, i)
         THEN LET e == ClassRunEnd(s, i + 1, NameChar)
              IN <<SubSeq(s, i, e)>> \o ScanPlaceholders(s, e + 1)
         ELSE IF OrdinalMatchAt(s, i)
              THEN LET e == ClassRunEnd(s, i + 1, Digits)
                   IN <<SubSeq(s, i, e)>> \o ScanPlaceholders(s, e + 1)
              ELSE IF s[i] = "?"
                   THEN <<<<"?">>>> \o ScanPlaceholders(s, i + 1)
                   ELSE ScanPlaceholders(s, i + 1)

\* the placeholder tokens of the text transpile returned
OutputPlaceholders ==
    ScanPlaceholders(_remove_string_literals(transpiled.sql), 1)

InputValues == DictValues(parameters.items)
Ordinal(token) == CharsToInt(lstrip(token.text, {"$"}))

\* the caller's collection holds a value for every placeholder of the
\* template: a map with every name of a template of named parameters, or
\* a sequence with one value per placeholder of a template of positional
\* placeholders (addressed by the ordinals when the template uses them)
SuppliesEveryPlaceholder ==
    LET P == TemplatePlaceholders
    IN \/ /\ parameters.kind = "none"
          /\ P = <<>>
       \/ /\ parameters.kind = "dict"
          /\ \A i \in 1..Len(P) :
                /\ P[i].kind = "named"
                /\ DictHas(parameters.items, lstrip(P[i].text, Sigils))
       \/ /\ parameters.kind = "seq"
          /\ Len(InputValues) = Len(P)
          /\ \/ \A i \in 1..Len(P) : P[i].kind = "anonymous"
             \/ \A i \in 1..Len(P) :
                   P[i].kind = "ordinal" /\ Ordinal(P[i]) \in 1..Len(P)

\* the value the caller supplied for the i-th placeholder of the template
SuppliedValue(i) ==
    LET token == TemplatePlaceholders[i]
    IN IF parameters.kind = "dict"
       THEN DictGet(parameters.items, lstrip(token.text, Sigils))
       ELSE IF token.kind = "ordinal" THEN InputValues[Ordinal(token)]
       ELSE InputValues[i]

\* the returned collection binds a value to the i-th placeholder of the
\* returned text: by position in a sequence, by the placeholder's name in
\* a map
HasBoundValue(i) ==
    IF transpiled.parameters.kind = "dict"
    THEN /\ _is_named_parameter(OutputPlaceholders[i])
         /\ DictHas(transpiled.parameters.items,
                    lstrip(OutputPlaceholders[i], Sigils))
    ELSE i <= Len(transpiled.parameters.items)
BoundValue(i) ==
    IF transpiled.parameters.kind = "dict"
    THEN DictGet(transpiled.parameters.items,
                 lstrip(OutputPlaceholders[i], Sigils))
    ELSE transpiled.parameters.items[i][2]

\* C1: transpile binds to the i-th placeholder of the returned text the
\* value the caller supplied for the i-th placeholder of the template, for
\* every template, parameter collection and target dialect.
C1_ParametersStayAligned ==
    (transpile_pc = "returned" /\ SuppliesEveryPlaceholder) =>
        /\ transpiled.status = "ok"
        /\ Len(OutputPlaceholders) = Len(TemplatePlaceholders)
        /\ \A i \in 1..Len(TemplatePlaceholders) :
              HasBoundValue(i) /\ BoundValue(i) = SuppliedValue(i)

\* C2: the text transpile returns has as many placeholders as the returned
\* parameter collection has entries, also when a named parameter occurs
\* more than once in the template.
C2_PlaceholderCountEqualsParameterCount ==
    (transpile_pc = "returned" /\ SuppliesEveryPlaceholder
        /\ transpiled.status = "ok") =>
        Len(OutputPlaceholders) = Len(transpiled.parameters.items)

RECURSIVE FirstOccurrences(_)
\* s without the later occurrences of its elements
FirstOccurrences(s) ==
    IF s = <<>> THEN <<>>
    ELSE LET front == FirstOccurrences(SubSeq(s, 1, Len(s) - 1))
         IN IF s[Len(s)] \in Range(front) THEN front
            ELSE Append(front, s[Len(s)])

\* the names of the named parameters the template was written with, in
\* their order of first appearance
TemplateNames ==
    LET named == SelectSeq(template, LAMBDA t : t.kind = "named")
    IN FirstOccurrences([i \in 1..Len(named) |-> lstrip(named[i].text, Sigils)])

\* C9: reconciling a name->value map that has every named parameter of
\* the template returns a map whose keys are exactly the named parameters
\* of the template outside string literals, in their order of appearance,
\* each with the caller's value; entries under other names are gone.
C9_SortedMapFollowsTemplate ==
    (transpile_pc = "returned" /\ parameters.kind = "dict"
        /\ Range(TemplateNames) \subseteq Range(DictKeys(parameters.items))) =>
        LET items == sorted_parameters.value.items
        IN /\ sorted_parameters.status = "ok"
           /\ sorted_parameters.value.kind = "dict"
           /\ DictKeys(items) = TemplateNames
           /\ \A i \in 1..Len(items) :
                 /\ DictHas(parameters.items, items[i][1])
                 /\ items[i][2] = DictGet(parameters.items, items[i][1])

\* a map listing a before b is reconciled against a template that names b
\* and holds :a only inside a string literal: the entry a is removed
C9_Witness ==
    /\ transpile_pc = "returned"
    /\ template = <<Token("named", <<":", "b">>),
                    Token("literal", <<"'", ":", "a", "'">>)>>
    /\ parameters = Dict(<<<< <<"a">>, 18 >>, << <<"b">>, 65 >>>>)
    /\ sorted_parameters = Ok(Dict(<<<< <<"b">>, 65 >>>>))

\* the ordinals of the $n markers the template was written with
TemplateOrdinals ==
    LET marked == SelectSeq(template, LAMBDA t : t.kind = "ordinal")
    IN [i \in 1..Len(marked) |-> Ordinal(marked[i])]

SortedValues == DictValues(sorted_parameters.value.items)

\* C10 as claimed: a sequence of length k reconciled against k markers $n
\* is reindexed by the ordinals whatever the ordinals are; without markers
\* it is unchanged; any other number of markers fails with an assertion.
C10_AsClaimed ==
    (transpile_pc = "returned" /\ parameters.kind = "seq") =>
        LET n == TemplateOrdinals
            k == Len(InputValues)
        IN IF Len(n) = k
           THEN /\ sorted_parameters.status = "ok"
                /\ Len(SortedValues) = k
                /\ \A i \in 1..k : n[i] \in 1..k /\ SortedValues[i] = InputValues[n[i]]
           ELSE IF Len(n) = 0
                THEN sorted_parameters = Ok(Tuple(InputValues))
                ELSE sorted_parameters = Raised("AssertionError")

\* C10 as amended: with k markers whose ordinals all lie in 1..k the
\* sequence is reindexed by the ordinals; with k markers of which one has
\* an ordinal above k the call raises IndexError; without markers the
\* sequence is unchanged; any other number of markers fails with an
\* assertion.
C10_SortedSequenceFollowsOrdinals ==
    (transpile_pc = "returned" /\ parameters.kind = "seq") =>
        LET n == TemplateOrdinals
            k == Len(InputValues)
        IN IF Len(n) = k
           THEN IF \A i \in 1..k : n[i] \in 1..k
                THEN /\ sorted_parameters.status = "ok"
                     /\ sorted_parameters.value.kind = "seq"
                     /\ Len(SortedValues) = k
                     /\ \A i \in 1..k : SortedValues[i] = InputValues[n[i]]
                ELSE sorted_parameters = Raised("IndexError")
           ELSE IF Len(n) = 0
                THEN sorted_parameters = Ok(Tuple(InputValues))
                ELSE sorted_parameters = Raised("AssertionError")

\* the sequence (18, 65) is reconciled against "$2 $1" and comes back as
\* (65, 18)
C10_Witness ==
    /\ transpile_pc = "returned"
    /\ template = <<Token("ordinal", <<"$", "2">>), Token("ordinal", <<"$", "1">>)>>
    /\ parameters = Tuple(<<18, 65>>)
    /\ sorted_parameters = Ok(Tuple(<<65, 18>>))

\* the template with every placeholder token replaced by the target's form
\* (numbered by its position among the placeholders) and every other token
\* kept as it was written
RewrittenTemplate ==
    [i \in 1..Len(template) |->
        IF template[i].kind \in PlaceholderKinds
        THEN LET before == SelectSeq(SubSeq(template, 1, i),
                                     LAMBDA t : t.kind \in PlaceholderKinds)
             IN Token(template[i].kind,
                      Replacement(template[i].text, Len(before) - 1,
                                  output_dialect))
        ELSE template[i]]

\* the placeholders of the template are all of one kind, so that the list
\* of found tokens is in the order of the text
OneKindOfPlaceholder ==
    \A i, j \in 1..Len(TemplatePlaceholders) :
        TemplatePlaceholders[i].kind = TemplatePlaceholders[j].kind

\* C11: the rewriting changes the placeholder tokens outside quoted string
\* literals, each once and in the order of the text, and leaves every other
\* character, placeholder-like text inside a literal included, as it was.
C11_OnlyPlaceholdersAreRewritten ==
    (transpile_pc = "returned" /\ transpiled.status = "ok"
        /\ OneKindOfPlaceholder) =>
        transpiled.sql = TemplateSql(RewrittenTemplate)

(***************************************************************************)
(* SQLDatabase.drop_all_tables: the drop order over the foreign keys.      *)
(***************************************************************************)
\* all orders in which the elements of the set S can be listed
Orderings(S) ==
    {order \in [1..Cardinality(S) -> S] : Range(order) = S}

\* the foreign-key graphs over a set of tables: a table references any of
\* the tables, itself included
ReferenceGraphs(T) == [T -> SUBSET T]

\* a variant that lists the tables whose foreign keys point to the table
referenced_tables_Referencing(table) ==
    {other \in tables : table \in references[other]}

\* a variant that leaves out the table itself
referenced_tables_Others(table) == references[table] \ {table}

\* SQLTable.referenced_tables
referenced_tables(table) == references[table]

\* drop_all_tables(if_exists) is called on a database with these tables
InitDrop ==
    /\ tables \in SUBSET (1..NumTables)
    /\ references \in ReferenceGraphs(tables)
    /\ if_exists \in BOOLEAN
    /\ drop_pc = "called"
    /\ unsorted_tables = tables
    /\ sorted_tables = <<>>
    /\ drop_statements = <<>>
    /\ committed = FALSE
    /\ TranspilerIdle
    /\ InsertIdle
    /\ ConditionIdle
    /\ SchemaIdle
    /\ ConversionIdle
    /\ AliasIdle
    /\ WriteIdle
    /\ ReturningIdle
    /\ FilterIdle
    /\ CacheIdle
    /\ ConcurrentIdle
    /\ TransactionIdle

\* one iteration of the while loop
SortTables ==
    /\ drop_pc = "called"
    /\ unsorted_tables # {}
    /\ LET referenced == UNION {referenced_tables(table) : table \in unsorted_tables}
           unreferenced_tables == unsorted_tables \ referenced
       IN /\ \E order \in Orderings(unreferenced_tables) :
                sorted_tables' = sorted_tables \o order
          /\ unsorted_tables' = referenced
    /\ UNCHANGED <<tables, references, if_exists, drop_pc, drop_statements, committed>>
    /\ UNCHANGED <<transpiler_vars, insert_vars, condition_vars, schema_vars, conversion_vars, alias_vars, write_vars, returning_vars, filter_vars, cache_vars, concurrent_vars, transaction_vars>>

\* one iteration of the for loop: drop_table(table, if_exists) executes a
\* DROP TABLE statement
DropTable ==
    /\ drop_pc = "called"
    /\ unsorted_tables = {}
    /\ Len(drop_statements) < Len(sorted_tables)
    /\ drop_statements' =
           Append(drop_statements,
                  [table |-> sorted_tables[Len(drop_statements) + 1],
                   if_exists |-> if_exists])
    /\ UNCHANGED <<tables, references, if_exists, drop_pc, unsorted_tables,
                   sorted_tables, committed>>
    /\ UNCHANGED <<transpiler_vars, insert_vars, condition_vars, schema_vars, conversion_vars, alias_vars, write_vars, returning_vars, filter_vars, cache_vars, concurrent_vars, transaction_vars>>

\* the commit after the for loop, and the return
CommitDrop ==
    /\ drop_pc = "called"
    /\ unsorted_tables = {}
    /\ Len(drop_statements) = Len(sorted_tables)
    /\ committed' = TRUE
    /\ drop_pc' = "returned"
    /\ UNCHANGED <<tables, references, if_exists, unsorted_tables,
                   sorted_tables, drop_statements>>
    /\ UNCHANGED <<transpiler_vars, insert_vars, condition_vars, schema_vars, conversion_vars, alias_vars, write_vars, returning_vars, filter_vars, cache_vars, concurrent_vars, transaction_vars>>

NextDrop == SortTables \/ DropTable \/ CommitDrop

SpecDrop == InitDrop /\ [][NextDrop]_vars

\* the call runs on its own thread of control and takes its next step
\* whenever it has one
SpecDropFair == SpecDrop /\ WF_vars(NextDrop)

RECURSIVE ReachableIn(_, _)
\* the tables reached from the set S over at most n foreign keys
ReachableIn(S, n) ==
    IF n = 0 THEN {}
    ELSE LET step == UNION {references[t] : t \in S}
         IN step \cup ReachableIn(step, n - 1)

\* the tables a table references, directly or transitively
TransitivelyReferenced(table) == ReachableIn({table}, Cardinality(tables))

Acyclic == \A table \in tables : table \notin TransitivelyReferenced(table)

DroppedTables == [i \in 1..Len(drop_statements) |-> drop_statements[i].table]

\* C3: for an acyclic foreign-key graph drop_all_tables terminates, and
\* the tables it dropped are a permutation of the database's tables in
\* which every table comes before every table it references, directly or
\* transitively.
C3_DropOrderRespectsReferences ==
    /\ (drop_pc = "called" /\ Acyclic) ~> (drop_pc = "returned")
    /\ [](drop_pc = "returned" /\ Acyclic =>
            /\ committed
            /\ Len(DroppedTables) = Cardinality(tables)
            /\ Range(DroppedTables) = tables
            /\ \A i, j \in 1..Len(DroppedTables) :
                  DroppedTables[j] \in TransitivelyReferenced(DroppedTables[i])
                      => i < j)

\* the chain 1 -> 2 -> 3 has been dropped in the order 1, 2, 3
C3_Witness ==
    /\ drop_pc = "returned"
    /\ tables = {1, 2, 3}
    /\ references = (1 :> {2}) @@ (2 :> {3}) @@ (3 :> {})
    /\ DroppedTables = <<1, 2, 3>>

\* C25: with a cycle in the foreign-key graph, a table that references
\* itself included, drop_all_tables stays in its ordering loop for ever:
\* the set of unsorted tables never gets empty, the call neither returns
\* nor raises, and it executes no DROP TABLE statement and no commit.
C25_CycleIsNeverLeft ==
    (drop_pc # "idle" /\ ~Acyclic) =>
        /\ unsorted_tables # {}
        /\ drop_pc = "called"
        /\ drop_statements = <<>>
        /\ ~committed

\* the loop has put a table aside and goes on with the tables of a cycle,
\* which reference each other or themselves
C25_Witness ==
    /\ drop_pc = "called"
    /\ ~Acyclic
    /\ sorted_tables # <<>>
    /\ unsorted_tables # {}
    /\ unsorted_tables = UNION {references[t] : t \in unsorted_tables}
    /\ \E t \in unsorted_tables : t \in references[t]

(***************************************************************************)
(* Columns, records and their database parameters.  A record is the        *)
(* sequence of its (column, value) items in insertion order.               *)
(***************************************************************************)
\* the table t with the columns w and k; k has a column converter and a
\* data type with a converter, w has neither
TABLE == <<"t">>
W == <<"w">>
K == <<"k">>
Columns == {W, K}

\* the first hexadecimal digits uuid4() may come up with
Uuids == {<<"0">>, <<"1">>}

\* item.to_database_converter applied to a value, for the item that has one
ColumnConverter(item, value) == IF item = K THEN value + 1 ELSE value
\* item.data_type.to_database_converter applied to a value, for the data
\* type that has one
TypeConverter(item, value) == IF item = K THEN 2 * value ELSE value

\* SQLRecord.to_database_value
to_database_value(item, value) == TypeConverter(item, ColumnConverter(item, value))

\* str.replace(old, new) for one-character old and new
replace(s, old, new) == [i \in 1..Len(s) |-> IF s[i] = old THEN new ELSE s[i]]

\* SQLColumn.fully_qualified_name of a column of the table
fully_qualified_name(column) == TABLE \o <<".">> \o column

\* SQLColumn.generate_parameter_name, uuid being what uuid4().hex[:8] gave
generate_parameter_name(column, uuid) ==
    replace(fully_qualified_name(column), ".", "_") \o <<"_">> \o uuid

RECURSIVE ParametersFrom(_, _, _)
\* the for loop of to_database_parameters over the items from index on
ParametersFrom(record, uuids, index) ==
    IF index = 0 THEN <<>>
    ELSE DictSet(ParametersFrom(record, uuids, index - 1),
                 generate_parameter_name(record[index][1], uuids[index]),
                 to_database_value(record[index][1], record[index][2]))

\* SQLRecord.to_database_parameters
to_database_parameters(record, uuids) ==
    ParametersFrom(record, uuids, Len(record))

(***************************************************************************)
(* Statements.                                                             *)
(***************************************************************************)
RECURSIVE Join(_, _)
\* separator.join(texts)
Join(texts, separator) ==
    IF texts = <<>> THEN <<>>
    ELSE IF Len(texts) = 1 THEN texts[1]
    ELSE texts[1] \o separator \o Join(Tail(texts), separator)

\* the rendered insert_into_statement.sql.j2: the columns of the record
\* and one named parameter for each entry of the parameters
InsertIntoTemplate(columns, parameter_names) ==
    LET INSERT_INTO ==
            <<"I","N","S","E","R","T"," ","I","N","T","O"," ">>
        VALUES == <<"V","A","L","U","E","S">>
    IN INSERT_INTO \o TABLE \o <<" ", "(">> \o Join(columns, <<",", " ">>)
        \o <<")", " ">> \o VALUES \o <<" ", "(">>
        \o Join([i \in 1..Len(parameter_names) |-> <<":">> \o parameter_names[i]],
                <<",", " ">>)
        \o <<")">>

\* SQLInsertIntoStatement(dialect, table, record)
SQLInsertIntoStatement(statement_dialect, record, uuids) ==
    LET statement_parameters == to_database_parameters(record, uuids)
        columns == DictKeys(record)
    IN [dialect |-> statement_dialect,
        columns |-> columns,
        template_parameters |-> statement_parameters,
        template_sql |-> InsertIntoTemplate(columns, DictKeys(statement_parameters))]

\* SQLStatement.sql
StatementSql(statement) == transpile_sql(statement.template_sql, statement.dialect)

\* SQLStatement.parameters
StatementParameters(statement) ==
    transpile_parameters(statement.template_sql,
                         Dict(statement.template_parameters), statement.dialect)

(***************************************************************************)
(* SQLDatabase.insert_records.                                             *)
(***************************************************************************)
\* the values an application stores in a column
ColumnValues(column) == IF column = K THEN {7} ELSE ParameterValues

\* the records an application builds over the columns of the table
Records ==
    {record \in SeqsUpTo(Columns \X (ParameterValues \cup {7}), Cardinality(Columns)) :
        /\ record # <<>>
        /\ Injective(DictKeys(record))
        /\ \A i \in 1..Len(record) : record[i][2] \in ColumnValues(record[i][1])}

\* the for loop over zip(template_parameters.keys(), record.values())
AssignValues(template_parameters, values) ==
    [i \in 1..Len(template_parameters) |->
        IF i <= Len(values) THEN <<template_parameters[i][1], values[i]>>
        ELSE template_parameters[i]]

\* a variant that puts the new id in front
ids_append_Front(list, id) == <<id>> \o list

\* ids.append(row[0])
ids_append(list, id) == Append(list, id)

\* insert_records(table, records) is called
InitInsert ==
    /\ dialect \in ESQLDialect
    /\ records \in SeqsUpTo(Records, MaxBatch)
    /\ insert_pc = "called"
    /\ insert_statement = NoStatement
    /\ rendered = 0
    /\ executed = <<>>
    /\ driver_rows = <<>>
    /\ ids = <<>>
    /\ inserted = NotInserted
    /\ TranspilerIdle
    /\ DropIdle
    /\ ConditionIdle
    /\ SchemaIdle
    /\ ConversionIdle
    /\ AliasIdle
    /\ WriteIdle
    /\ ReturningIdle
    /\ FilterIdle
    /\ CacheIdle
    /\ ConcurrentIdle
    /\ TransactionIdle

\* the statement is built from records[0]; an empty list has no first
\* record
BuildInsertStatement ==
    /\ insert_pc = "called"
    /\ IF records = <<>>
       THEN /\ insert_pc' = "returned"
            /\ inserted' = [status |-> "IndexError", ids |-> <<>>, none |-> FALSE]
            /\ UNCHANGED <<insert_statement, rendered>>
       ELSE /\ \E uuids \in [1..Len(records[1]) -> Uuids] :
                insert_statement' =
                    SQLInsertIntoStatement(dialect, records[1], uuids)
            /\ rendered' = rendered + 1
            /\ insert_pc' = "looping"
            /\ UNCHANGED inserted
    /\ UNCHANGED <<dialect, records, executed, driver_rows, ids>>
    /\ UNCHANGED <<transpiler_vars, drop_vars, condition_vars, schema_vars, conversion_vars, alias_vars, write_vars, returning_vars, filter_vars, cache_vars, concurrent_vars, transaction_vars>>

\* one iteration of the for loop: the parameters of a later record are
\* assigned, the statement is executed, and the driver answers with a
\* row holding the new id, with no row, or with no result set
ExecuteInsert ==
    /\ insert_pc = "looping"
    /\ Len(executed) < Len(records)
    /\ LET index == Len(executed) + 1
           record == records[index]
           statement ==
               IF index > 1
               THEN [insert_statement EXCEPT !.template_parameters =
                        AssignValues(@, DictValues(record))]
               ELSE insert_statement
       IN /\ insert_statement' = statement
          /\ executed' = Append(executed,
                                [sql |-> StatementSql(statement),
                                 parameters |-> StatementParameters(statement)])
          /\ \E answer \in {"row", "no row", "no result set"} :
                /\ driver_rows' = Append(driver_rows,
                                         IF answer = "row" THEN index ELSE 0)
                /\ ids' = IF answer = "row" THEN ids_append(ids, index) ELSE ids
    /\ UNCHANGED <<dialect, records, insert_pc, rendered, inserted>>
    /\ UNCHANGED <<transpiler_vars, drop_vars, condition_vars, schema_vars, conversion_vars, alias_vars, write_vars, returning_vars, filter_vars, cache_vars, concurrent_vars, transaction_vars>>

\* return ids if len(ids) else None
ReturnIds ==
    /\ insert_pc = "looping"
    /\ Len(executed) = Len(records)
    /\ insert_pc' = "returned"
    /\ inserted' = [status |-> "ok", ids |-> ids, none |-> Len(ids) = 0]
    /\ UNCHANGED <<dialect, records, insert_statement, rendered, executed,
                   driver_rows, ids>>
    /\ UNCHANGED <<transpiler_vars, drop_vars, condition_vars, schema_vars, conversion_vars, alias_vars, write_vars, returning_vars, filter_vars, cache_vars, concurrent_vars, transaction_vars>>

NextInsert == BuildInsertStatement \/ ExecuteInsert \/ ReturnIds

SpecInsert == InitInsert /\ [][NextInsert]_vars

\* the columns the statement template was rendered with, in its order
TemplateColumns == DictKeys(records[1])

PositionOf(column) ==
    CHOOSE i \in 1..Len(TemplateColumns) : TemplateColumns[i] = column

\* the parameter name generated for the column when the statement was built
ParameterOf(column) ==
    insert_statement.template_parameters[PositionOf(column)][1]

\* the value the e-th execution handed to the driver for the column's
\* parameter: under the parameter's name, or at the position of the
\* column's placeholder
BoundTo(e, column) ==
    LET bound == executed[e].parameters.value
    IN IF bound.kind = "dict" THEN DictGet(bound.items, ParameterOf(column))
       ELSE bound.items[PositionOf(column)][2]

\* C4: every execution of a batch hands the driver, for each column of
\* its record, the record's value for that column in database form,
\* bound to that column's parameter -- also for a later record that lists
\* the columns of the first record in another order.
C4_EachRecordBindsItsOwnValues ==
    \A e \in 1..Len(executed) :
        Range(DictKeys(records[e])) = Range(TemplateColumns) =>
            /\ executed[e].parameters.status = "ok"
            /\ \A i \in 1..Len(records[e]) :
                  BoundTo(e, records[e][i][1])
                      = to_database_value(records[e][i][1], records[e][i][2])

\* the ids the driver returned, in the order of the records
GeneratedIds == SelectSeq(driver_rows, LAMBDA id : id > 0)

\* C5: a call of insert_records with n >= 1 records renders the statement
\* template once, executes n statements whose SQL text is the same, and
\* returns the ids the driver generated in the order of the records (None
\* when the driver generated none).
C5_OneTemplateManyExecutions ==
    /\ rendered <= 1
    /\ Len(executed) <= Len(records)
    /\ (insert_pc = "returned" /\ inserted.status = "ok") =>
           /\ rendered = 1
           /\ Len(executed) = Len(records)
           /\ \A e \in 1..Len(executed) :
                 executed[e].sql = StatementSql(insert_statement)
           /\ inserted.ids = GeneratedIds
           /\ inserted.none = (GeneratedIds = <<>>)

\* two different records were inserted and the ids 1, 2 came back
C5_Witness ==
    /\ insert_pc = "returned"
    /\ Len(records) = 2
    /\ records[1] # records[2]
    /\ Len(executed) = 2
    /\ executed[1].sql = executed[2].sql
    /\ inserted = [status |-> "ok", ids |-> <<1, 2>>, none |-> FALSE]

\* the values the e-th execution handed to the driver
SentValues(e) ==
    {executed[e].parameters.value.items[i][2] :
        i \in 1..Len(executed[e].parameters.value.items)}

\* the values of a record, as the application wrote them and in database
\* form
OwnValues(record) ==
    {record[i][2] : i \in 1..Len(record)}
        \cup {to_database_value(record[i][1], record[i][2]) : i \in 1..Len(record)}

\* C23: once the statement of a batch has been executed, no step of
\* insert_records changes its parameter map, and every execution hands
\* the driver values of its own record only -- also for a later record
\* with fewer columns than the first.
C23_ExecutedStatementKeepsItsParameters ==
    [][/\ Len(executed) >= 1 =>
              insert_statement'.template_parameters
                  = insert_statement.template_parameters
       /\ \A e \in 1..Len(executed') :
              SentValues(e)' \subseteq OwnValues(records[e])]_vars

(***************************************************************************)
(* Conditions: SQLCondition and SQLCompoundCondition.                      *)
(***************************************************************************)
\* ESQLComparisonOperator: the value of each member
ESQLComparisonOperator ==
    ("BETWEEN" :> "BETWEEN") @@ ("EQUAL" :> "=") @@ ("GREATER_THAN" :> ">")
        @@ ("GREATER_THAN_OR_EQUAL" :> "<=") @@ ("IN" :> "IN")
        @@ ("IS_NOT_NULL" :> "IS NOT NULL") @@ ("IS_NULL" :> "IS NULL")
        @@ ("LESS_THAN" :> "<") @@ ("LESS_THAN_OR_EQUAL" :> "<=")
        @@ ("LIKE" :> "LIKE") @@ ("NOT_BETWEEN" :> "NOT BETWEEN")
        @@ ("NOT_EQUAL" :> "!=") @@ ("NOT_IN" :> "NOT IN")
        @@ ("NOT_LIKE" :> "NOT LIKE")

\* the operators a condition can be constructed with
Operators == {ESQLComparisonOperator[member] : member \in DOMAIN ESQLComparisonOperator}

\* a variant that wants at least one value for IN and NOT IN
_validate_value_count_NonEmptyIn(operator, right) ==
    LET E == ESQLComparisonOperator
    IN IF operator \in {E["IS_NULL"], E["IS_NOT_NULL"]} THEN Len(right) = 0
       ELSE IF operator \in {E["BETWEEN"], E["NOT_BETWEEN"]} THEN Len(right) = 2
       ELSE IF operator \in {E["IN"], E["NOT_IN"]} THEN Len(right) >= 1
       ELSE Len(right) = 1

\* SQLCondition._validate_value_count: whether the assertion passes
_validate_value_count(operator, right) ==
    LET E == ESQLComparisonOperator
        any == -1    \* required_value_count = None
        required_value_count ==
            IF operator \in {E["IS_NULL"], E["IS_NOT_NULL"]} THEN 0
            ELSE IF operator \in {E["BETWEEN"], E["NOT_BETWEEN"]} THEN 2
            ELSE IF operator \in {E["IN"], E["NOT_IN"]} THEN any
            ELSE 1
    IN required_value_count = any \/ Len(right) = required_value_count

RECURSIVE _parse_values(_, _, _, _)
\* SQLCondition._parse_values for plain values, up to the index-th: the
\* parameters, and the names generated on the way
_parse_values(left, right, uuids, index) ==
    IF index = 0 THEN [parameters |-> <<>>, names |-> <<>>]
    ELSE LET parsed == _parse_values(left, right, uuids, index - 1)
             parameter == generate_parameter_name(left, uuids[index])
         IN [parameters |->
                 DictSet(parsed.parameters, parameter,
                         to_database_value(left, right[index])),
             names |-> Append(parsed.names, parameter)]

\* SQLCondition(left, operator, *right), as the id-th leaf constructed
SQLCondition(left, operator, right, uuids, id) ==
    IF ~_validate_value_count(operator, right)
    THEN [status |-> "AssertionError", parameters |-> <<>>, leaves |-> {}]
    ELSE LET parsed == _parse_values(left, right, uuids, Len(right))
         IN [status |-> "ok", parameters |-> parsed.parameters,
             leaves |-> {[id |-> id, names |-> parsed.names]}]

\* SQLCompoundCondition(left, operator, right)
SQLCompoundCondition(left, right) ==
    [status |-> "ok",
     parameters |-> DictUpdate(left.parameters, right.parameters),
     leaves |-> left.leaves \cup right.leaves]

\* the parameters of SQLSelectStatement(..., where_condition, having_condition)
SelectParameters(where_parameters, having_parameters) ==
    DictUpdate(DictUpdate(<<>>, where_parameters), having_parameters)

(***************************************************************************)
(* One SQLCondition(left, operator, *right) call on any operator and any   *)
(* number of values.                                                       *)
(***************************************************************************)
InitLeaf ==
    /\ leaf_input \in [left : Columns, operator : Operators,
                       right : SeqsUpTo(ParameterValues, MaxValues)]
    /\ leaf = NoCondition
    /\ conditions = [slot \in 1..NumSlots |-> NoCondition]
    /\ created = 0
    /\ merged = NotMerged
    /\ TranspilerIdle
    /\ DropIdle
    /\ InsertIdle
    /\ SchemaIdle
    /\ ConversionIdle
    /\ AliasIdle
    /\ WriteIdle
    /\ ReturningIdle
    /\ FilterIdle
    /\ CacheIdle
    /\ ConcurrentIdle
    /\ TransactionIdle

ConstructLeaf ==
    /\ leaf.status = "none"
    /\ \E uuids \in [1..Len(leaf_input.right) -> Uuids] :
          leaf' = SQLCondition(leaf_input.left, leaf_input.operator,
                               leaf_input.right, uuids, 1)
    /\ created' = IF leaf'.status = "ok" THEN 1 ELSE 0
    /\ UNCHANGED <<leaf_input, conditions, merged>>
    /\ UNCHANGED <<transpiler_vars, drop_vars, insert_vars, schema_vars, conversion_vars, alias_vars, write_vars, returning_vars, filter_vars, cache_vars, concurrent_vars, transaction_vars>>

NextLeaf == ConstructLeaf

SpecLeaf == InitLeaf /\ [][NextLeaf]_vars

\* the value count the operator takes
TakesValues(operator, count) ==
    LET E == ESQLComparisonOperator
    IN IF operator \in {E["IS_NULL"], E["IS_NOT_NULL"]} THEN count = 0
       ELSE IF operator \in {E["BETWEEN"], E["NOT_BETWEEN"]} THEN count = 2
       ELSE IF operator \in {E["IN"], E["NOT_IN"]} THEN count >= 0
       ELSE count = 1

ConditionInputs ==
    {[left |-> W, operator |-> "=", right |-> <<18>>],
     [left |-> W, operator |-> "=", right |-> <<65>>],
     [left |-> W, operator |-> "BETWEEN", right |-> <<18, 65>>],
     [left |-> K, operator |-> "=", right |-> <<7>>]}

InitCondition ==
    /\ ConditionIdle
    /\ TranspilerIdle
    /\ DropIdle
    /\ InsertIdle
    /\ SchemaIdle
    /\ ConversionIdle
    /\ AliasIdle
    /\ WriteIdle
    /\ ReturningIdle
    /\ FilterIdle
    /\ CacheIdle
    /\ ConcurrentIdle
    /\ TransactionIdle

\* condition = SQLCondition(left, operator, *right), kept in a slot
NewCondition ==
    /\ created < MaxLeaves
    /\ \E slot \in 1..NumSlots, input \in ConditionInputs :
          \E uuids \in [1..Len(input.right) -> Uuids] :
              conditions' =
                  [conditions EXCEPT ![slot] =
                      SQLCondition(input.left, input.operator, input.right,
                                   uuids, created + 1)]
    /\ created' = created + 1
    /\ UNCHANGED <<leaf_input, leaf, merged>>
    /\ UNCHANGED <<transpiler_vars, drop_vars, insert_vars, schema_vars, conversion_vars, alias_vars, write_vars, returning_vars, filter_vars, cache_vars, concurrent_vars, transaction_vars>>

\* condition = left & right, or left | right, kept in a slot
Combine ==
    /\ \E i, j, k \in 1..NumSlots :
          /\ conditions[i].status = "ok"
          /\ conditions[j].status = "ok"
          /\ LET compound == SQLCompoundCondition(conditions[i], conditions[j])
             IN /\ conditions' = [conditions EXCEPT ![k] = compound]
                /\ merged' = [kind |-> "compound",
                              left |-> conditions[i].parameters,
                              right |-> conditions[j].parameters,
                              result |-> compound.parameters]
    /\ UNCHANGED <<leaf_input, leaf, created>>
    /\ UNCHANGED <<transpiler_vars, drop_vars, insert_vars, schema_vars, conversion_vars, alias_vars, write_vars, returning_vars, filter_vars, cache_vars, concurrent_vars, transaction_vars>>

\* SQLSelectStatement(..., where_condition=where, having_condition=having)
Select ==
    /\ \E i, j \in 1..NumSlots :
          /\ conditions[i].status = "ok"
          /\ conditions[j].status = "ok"
          /\ merged' = [kind |-> "select",
                        left |-> conditions[i].parameters,
                        right |-> conditions[j].parameters,
                        result |-> SelectParameters(conditions[i].parameters,
                                                    conditions[j].parameters)]
    /\ UNCHANGED <<leaf_input, leaf, conditions, created>>
    /\ UNCHANGED <<transpiler_vars, drop_vars, insert_vars, schema_vars, conversion_vars, alias_vars, write_vars, returning_vars, filter_vars, cache_vars, concurrent_vars, transaction_vars>>

NextCondition == NewCondition \/ Combine \/ Select

SpecCondition == InitCondition /\ [][NextCondition]_vars

\* C6: no merge of two parameter maps that share a key completes: neither
\* the one of a compound condition nor the one of a SELECT statement's
\* WHERE and HAVING conditions.
C6_SharedKeyFails ==
    merged.kind # "none" =>
        Range(DictKeys(merged.left)) \cap Range(DictKeys(merged.right)) = {}

\* C7: the parameter names generated for the leaf conditions of one
\* condition are pairwise distinct, also when the leaves filter the same
\* column.
C7_GeneratedNamesDistinct ==
    \A slot \in 1..NumSlots :
        \A l1, l2 \in conditions[slot].leaves :
            \A i \in 1..Len(l1.names), j \in 1..Len(l2.names) :
                (l1.id # l2.id \/ i # j) => l1.names[i] # l2.names[j]

(***************************************************************************)
(* Columns, tables, data types and databases as objects.  An object is a   *)
(* record in a sequence and its identity is its index; 0 stands for None   *)
(* and for an attribute that is not set.  The operators take the objects   *)
(* h = [columns, tables, data_types] and give them back as the call left   *)
(* them, with the exception it raised ("" for none).                       *)
(***************************************************************************)
MaxOperations == 5    \* constructions made after the declarations

\* the table classes of the application, in the order of their declaration;
\* every columns class derives from SQLColumnsWithID
TableClasses == <<"words", "meanings", "examples">>
Classes == Range(TableClasses)

\* the columns a columns class declares in its own body
OwnColumns(class) ==
    CASE class = "words" ->
           <<[name |-> "word", data_type |-> "VARCHAR", reference |-> ""]>>
      [] class = "meanings" ->
           <<[name |-> "word_id", data_type |-> "INTEGER", reference |-> "words"],
             [name |-> "synonym_id", data_type |-> "INTEGER", reference |-> "words"]>>
      [] class = "examples" ->
           <<[name |-> "meaning_id", data_type |-> "INTEGER",
              reference |-> "meanings"]>>

\* isinstance(data_type, SQLDataTypeWithParameter)
SQLDataTypeWithParameter(data_type) == data_type.name = "VARCHAR"

\* SQLDataTypes.INTEGER, the one object of the class attribute
INTEGER == 1

\* Body of the value, with the value computed once
Once(value, Body(_)) == CHOOSE result \in {Body(v) : v \in {value}} : TRUE

Raise(h, exception) ==
    [columns |-> h.columns, tables |-> h.tables, data_types |-> h.data_types,
     raised |-> exception]

\* SQLColumn(name, data_type, reference=reference)
SQLColumn__init__(h, name, data_type, reference) ==
    LET self == Len(h.columns) + 1
        column == [name |-> name,
                   data_type |-> data_type,
                   reference |-> reference,
                   _foreign_keys |-> <<>>,
                   table |-> 0]
    IN [h EXCEPT !.columns =
           IF reference = 0 THEN Append(@, column)
           ELSE [Append(@, column) EXCEPT
                    ![reference]._foreign_keys = Append(@, self)]]

\* list.remove(x) on a list that holds x: the first occurrence goes
remove(list, x) ==
    LET i == Min({j \in 1..Len(list) : list[j] = x})
    IN SubSeq(list, 1, i - 1) \o SubSeq(list, i + 1, Len(list))

\* a copy that keeps its original's reference and takes over none of its
\* original's foreign keys
SQLColumn__deepcopy__Unlinked(h, self, memo) ==
    [columns |-> Append(h.columns, [h.columns[self] EXCEPT
                                       !._foreign_keys = <<>>, !.table = 0]),
     tables |-> h.tables, data_types |-> h.data_types, raised |-> "",
     memo |-> memo]

\* copy.deepcopy(self, memo) of the column self, whose data type is bound
\* to no database; memo maps the data types copied in this pass to their
\* copies.  The result carries the new memo.
SQLColumn__deepcopy__(h, self, memo) ==
    LET column == Len(h.columns) + 1
        original == h.columns[self]
        reference == original.reference
        copied == \E pair \in memo : pair[1] = original.data_type
        data_type ==
            IF copied
            THEN (CHOOSE pair \in memo : pair[1] = original.data_type)[2]
            ELSE Len(h.data_types) + 1
        appended == Append(h.columns, [name |-> original.name,
                                       data_type |-> data_type,
                                       reference |-> reference,
                                       _foreign_keys |-> <<>>,
                                       table |-> 0])
        moved == IF reference = 0 THEN appended
                 ELSE [appended EXCEPT ![reference]._foreign_keys =
                                           Append(remove(@, self), column)]
        foreign_keys == moved[self]._foreign_keys
    IN IF reference # 0 /\ self \notin Range(h.columns[reference]._foreign_keys)
       THEN [columns |-> h.columns, tables |-> h.tables,
             data_types |-> h.data_types, raised |-> "ValueError",
             memo |-> memo]
       ELSE [columns |->
                [c \in 1..Len(moved) |->
                    IF c = column
                    THEN [moved[c] EXCEPT
                             !._foreign_keys = foreign_keys,
                             !.reference =
                                 IF column \in Range(foreign_keys)
                                 THEN column ELSE @]
                    ELSE IF c \in Range(foreign_keys)
                         THEN [moved[c] EXCEPT !.reference = column]
                         ELSE moved[c]],
             tables |-> h.tables,
             data_types |->
                 IF copied THEN h.data_types
                 ELSE Append(h.data_types, h.data_types[original.data_type]),
             raised |-> "",
             memo |-> memo \cup {<<original.data_type, data_type>>}]

RECURSIVE CopyColumns(_, _, _, _, _)
\* the deep copies of the columns of a container, one after the other, up
\* to the first that raises; the memo is kept from one column to the next
\* when the container is copied as a whole
CopyColumns(h, originals, copies, memo, keep_memo) ==
    IF originals = <<>>
    THEN [columns |-> h.columns, tables |-> h.tables,
          data_types |-> h.data_types, raised |-> "", copies |-> copies]
    ELSE Once(SQLColumn__deepcopy__(h, Head(originals), memo),
              LAMBDA copied :
                  IF copied.raised # ""
                  THEN [columns |-> copied.columns, tables |-> copied.tables,
                        data_types |-> copied.data_types,
                        raised |-> copied.raised, copies |-> copies]
                  ELSE CopyColumns(Raise(copied, ""), Tail(originals),
                                   Append(copies, Len(copied.columns)),
                                   IF keep_memo THEN copied.memo ELSE {},
                                   keep_memo))

SetTable_Skipped(cs, columns, table) == cs

\* for column in columns: column.table = table
SetTable(cs, columns, table) ==
    [c \in 1..Len(cs) |->
        IF c \in Range(columns) THEN [cs[c] EXCEPT !.table = table] ELSE cs[c]]

\* copy.deepcopy(self) of the table self
SQLTable__deepcopy__(h, self) ==
    Once(CopyColumns(h, h.tables[self].columns, <<>>, {}, TRUE),
         LAMBDA copied :
             IF copied.raised # ""
             THEN Raise(copied, copied.raised)
             ELSE [columns |-> SetTable(copied.columns, copied.copies,
                                        Len(h.tables) + 1),
                   tables |-> Append(h.tables, [name |-> h.tables[self].name,
                                                columns |-> copied.copies,
                                                database |-> 0]),
                   data_types |-> copied.data_types,
                   raised |-> ""])

RECURSIVE CopyTables(_, _, _)
\* the deep copies of the tables of the tables class, in its order
CopyTables(h, originals, copies) ==
    IF originals = <<>>
    THEN [columns |-> h.columns, tables |-> h.tables,
          data_types |-> h.data_types, raised |-> "", copies |-> copies]
    ELSE Once(SQLTable__deepcopy__(h, Head(originals)),
              LAMBDA copied :
                  IF copied.raised # ""
                  THEN [columns |-> copied.columns, tables |-> copied.tables,
                        data_types |-> copied.data_types,
                        raised |-> copied.raised, copies |-> copies]
                  ELSE CopyTables(copied, Tail(originals),
                                  Append(copies, Len(copied.tables))))

RECURSIVE BindColumns(_, _, _, _)
\* the inner loop of SQLDatabase.__init__ over the columns of one table;
\* data_types is the local dict, as pairs <<name, object>>.  copy.deepcopy
\* of a data type that is bound to a database copies that database and its
\* connection, which cannot be copied
BindColumns(h, columns, data_types, self) ==
    IF columns = <<>>
    THEN [columns |-> h.columns, tables |-> h.tables,
          data_types |-> h.data_types, raised |-> "", dict |-> data_types]
    ELSE LET column == Head(columns)
             data_type == h.columns[column].data_type
             name == h.data_types[data_type].name
             new == Len(h.data_types) + 1
         IN IF SQLDataTypeWithParameter(h.data_types[data_type])
            THEN Once([h EXCEPT !.data_types[data_type].database = self],
                      LAMBDA bound :
                          BindColumns(bound, Tail(columns), data_types, self))
            ELSE IF \E pair \in data_types : pair[1] = name
                 THEN Once([h EXCEPT !.columns[column].data_type =
                               (CHOOSE pair \in data_types :
                                    pair[1] = name)[2]],
                           LAMBDA bound :
                               BindColumns(bound, Tail(columns), data_types,
                                           self))
                 ELSE IF h.data_types[data_type].database # 0
                      THEN [columns |-> h.columns, tables |-> h.tables,
                            data_types |-> h.data_types,
                            raised |-> "TypeError", dict |-> data_types]
                      ELSE Once([h EXCEPT
                                    !.data_types =
                                        Append(@, [name |-> name,
                                                   database |-> self]),
                                    !.columns[column].data_type = new],
                                LAMBDA bound :
                                    BindColumns(bound, Tail(columns),
                                                data_types
                                                    \cup {<<name, new>>},
                                                self))

RECURSIVE SQLDatabase__init__(_, _, _, _)
\* the loop of SQLDatabase.__init__ over the tables of the container
SQLDatabase__init__(h, container, data_types, self) ==
    IF container = <<>> THEN Raise(h, "")
    ELSE Once(BindColumns([h EXCEPT !.tables[Head(container)].database = self],
                          h.tables[Head(container)].columns, data_types,
                          self),
              LAMBDA bound :
                  IF bound.raised # "" THEN Raise(bound, bound.raised)
                  ELSE SQLDatabase__init__(Raise(bound, ""), Tail(container),
                                           bound.dict, self))

\* SQLTable.foreign_key_columns
foreign_key_columns(table) ==
    SelectSeq(table_objects[table].columns,
              LAMBDA column : column_objects[column].reference # 0)

\* self.get_foreign_key_column(table): 0 for None
get_foreign_key_column(self, table) ==
    LET found == SelectSeq(foreign_key_columns(self),
                           LAMBDA column :
                               column_objects[column].reference
                                   \in Range(table_objects[table].columns))
    IN IF found = <<>> THEN 0 ELSE found[1]

\* self.join(table): the SQLJoin with the two columns of its condition, or
\* the exception; self and table are kept with the result
join(self, table) ==
    LET foreign_key_column ==
            IF get_foreign_key_column(table, self) # 0
            THEN get_foreign_key_column(table, self)
            ELSE get_foreign_key_column(self, table)
    IN IF foreign_key_column = 0
       THEN [status |-> "AssertionError", self |-> self, table |-> table,
             left |-> 0, right |-> 0]
       ELSE [status |-> "ok", self |-> self, table |-> table,
             left |-> foreign_key_column,
             right |-> column_objects[foreign_key_column].reference]

(***************************************************************************)
(* The declarations of an application, and the constructions it makes      *)
(* afterwards.                                                             *)
(***************************************************************************)
\* the package is imported: SQLColumnsWithID.ID exists
InitSchema ==
    /\ tables_class \in Orderings(Classes)
    /\ data_type_objects = <<[name |-> "INTEGER", database |-> 0]>>
    /\ column_objects =
           SQLColumn__init__([columns |-> <<>>, tables |-> <<>>,
                              data_types |-> data_type_objects],
                             "id", INTEGER, 0).columns
    /\ table_objects = <<>>
    /\ database_objects = <<>>
    /\ columns_classes = [class \in Classes |-> <<>>]
    /\ columns_containers = [class \in Classes |-> <<>>]
    /\ class_tables = [class \in Classes |-> <<>>]
    /\ tables_containers = <<>>
    /\ operations = 0
    /\ raised = ""
    /\ joined = NotJoined
    /\ TranspilerIdle
    /\ DropIdle
    /\ InsertIdle
    /\ ConditionIdle
    /\ ConversionIdle
    /\ AliasIdle
    /\ WriteIdle
    /\ ReturningIdle
    /\ FilterIdle
    /\ CacheIdle
    /\ ConcurrentIdle
    /\ TransactionIdle

\* the objects of the program
Objects ==
    [columns |-> column_objects, tables |-> table_objects,
     data_types |-> data_type_objects]

\* the declarations are done: every table class has its instance
Declared == \A class \in Classes : class_tables[class] # <<>>

\* a construction after the declarations
Operation ==
    /\ Declared
    /\ operations < MaxOperations
    /\ operations' = operations + 1

RECURSIVE DeclareFrom(_, _, _)
\* the SQLColumn(...) calls of a columns class body: a reference is the ID
\* of the referenced table class's columns, an INTEGER is the class
\* attribute of SQLDataTypes, a VARCHAR is constructed in the call
DeclareFrom(h, declarations, declared) ==
    IF declarations = <<>>
    THEN [columns |-> h.columns, data_types |-> h.data_types,
          ids |-> declared]
    ELSE LET d == Head(declarations)
             reference == IF d.reference = "" THEN 0
                          ELSE columns_containers[d.reference][1][1]
             typed == IF d.data_type = "INTEGER" THEN h
                      ELSE [h EXCEPT !.data_types =
                               Append(@, [name |-> d.data_type,
                                          database |-> 0])]
             data_type == IF d.data_type = "INTEGER" THEN INTEGER
                          ELSE Len(typed.data_types)
         IN Once(SQLColumn__init__(typed, d.name, data_type, reference),
                 LAMBDA constructed :
                     DeclareFrom(constructed, Tail(declarations),
                                 Append(declared, Len(h.columns) + 1)))

\* class XTableColumns(SQLColumnsWithID): ...
DeclareColumns ==
    \E n \in 1..Len(TableClasses) :
        LET class == TableClasses[n]
            columns == DeclareFrom(Objects, OwnColumns(class), <<1>>)
        IN /\ columns_classes[class] = <<>>
           /\ \A m \in 1..(n - 1) : columns_containers[TableClasses[m]] # <<>>
           /\ column_objects' = columns.columns
           /\ data_type_objects' = columns.data_types
           /\ columns_classes' = [columns_classes EXCEPT ![class] = columns.ids]
           /\ raised' = ""
           /\ UNCHANGED <<tables_class, table_objects, database_objects,
                          columns_containers, class_tables, tables_containers,
                          operations, joined>>
           /\ UNCHANGED <<transpiler_vars, drop_vars, insert_vars, condition_vars, conversion_vars, alias_vars, write_vars, returning_vars, filter_vars, cache_vars, concurrent_vars, transaction_vars>>

\* XTableColumns(): EnumLikeContainer.__init__ deep-copies every column of
\* the class; the first instance is the attribute columns of the table class
InstantiateColumns ==
    \E class \in Classes :
        LET copied == CopyColumns(Objects, columns_classes[class], <<>>, {},
                                  FALSE)
        IN /\ columns_classes[class] # <<>>
           /\ \/ columns_containers[class] = <<>> /\ UNCHANGED operations
              \/ columns_containers[class] # <<>> /\ Operation
           /\ column_objects' = copied.columns
           /\ data_type_objects' = copied.data_types
           /\ raised' = copied.raised
           /\ columns_containers' =
                  IF copied.raised = ""
                  THEN [columns_containers EXCEPT
                           ![class] = Append(@, copied.copies)]
                  ELSE columns_containers
           /\ UNCHANGED <<tables_class, table_objects, database_objects,
                          columns_classes, class_tables, tables_containers,
                          joined>>
           /\ UNCHANGED <<transpiler_vars, drop_vars, insert_vars, condition_vars, conversion_vars, alias_vars, write_vars, returning_vars, filter_vars, cache_vars, concurrent_vars, transaction_vars>>

\* XTable(): SQLTable.__init__ over the columns of the class; the first
\* instance of each class is the one the tables class lists
InstantiateTable ==
    \E class \in Classes :
        LET self == Len(table_objects) + 1
            columns == columns_containers[class][1]
            listed == {n \in 1..Len(tables_class) :
                          class_tables[tables_class[n]] # <<>>}
        IN /\ \A other \in Classes : columns_containers[other] # <<>>
           /\ \/ /\ class_tables[class] = <<>>
                 /\ class = tables_class[Cardinality(listed) + 1]
                 /\ UNCHANGED operations
              \/ class_tables[class] # <<>> /\ Operation
           /\ table_objects' =
                  Append(table_objects,
                         [name |-> class, columns |-> columns, database |-> 0])
           /\ column_objects' = SetTable(column_objects, columns, self)
           /\ class_tables' = [class_tables EXCEPT ![class] = Append(@, self)]
           /\ raised' = ""
           /\ UNCHANGED <<tables_class, data_type_objects, database_objects,
                          columns_classes, columns_containers,
                          tables_containers, joined>>
           /\ UNCHANGED <<transpiler_vars, drop_vars, insert_vars, condition_vars, conversion_vars, alias_vars, write_vars, returning_vars, filter_vars, cache_vars, concurrent_vars, transaction_vars>>

\* XTables(): EnumLikeContainer.__init__ deep-copies every table the tables
\* class lists
InstantiateTables ==
    LET originals == [n \in 1..Len(tables_class) |->
                         class_tables[tables_class[n]][1]]
        copied == CopyTables(Objects, originals, <<>>)
    IN /\ Operation
       /\ column_objects' = copied.columns
       /\ table_objects' = copied.tables
       /\ data_type_objects' = copied.data_types
       /\ raised' = copied.raised
       /\ tables_containers' =
              IF copied.raised = ""
              THEN Append(tables_containers, copied.copies)
              ELSE tables_containers
       /\ UNCHANGED <<tables_class, database_objects, columns_classes,
                      columns_containers, class_tables, joined>>
       /\ UNCHANGED <<transpiler_vars, drop_vars, insert_vars, condition_vars, conversion_vars, alias_vars, write_vars, returning_vars, filter_vars, cache_vars, concurrent_vars, transaction_vars>>

\* XDatabase(name, connection, tables): SQLDatabase.__init__
ConstructDatabase ==
    \E tables_ \in 1..Len(tables_containers) :
        LET self == Len(database_objects) + 1
            built == SQLDatabase__init__(Objects, tables_containers[tables_],
                                         {}, self)
        IN /\ Operation
           /\ column_objects' = built.columns
           /\ table_objects' = built.tables
           /\ data_type_objects' = built.data_types
           /\ raised' = built.raised
           /\ database_objects' =
                  Append(database_objects,
                         [tables |-> tables_, raised |-> built.raised])
           /\ UNCHANGED <<tables_class, columns_classes, columns_containers,
                          class_tables, tables_containers, joined>>
           /\ UNCHANGED <<transpiler_vars, drop_vars, insert_vars, condition_vars, conversion_vars, alias_vars, write_vars, returning_vars, filter_vars, cache_vars, concurrent_vars, transaction_vars>>

\* table.join(other) on two tables of a database
JoinTables ==
    \E database \in 1..Len(database_objects) :
        \E self, table \in
              Range(tables_containers[database_objects[database].tables]) :
            /\ database_objects[database].raised = ""
            /\ Operation
            /\ joined' = join(self, table)
            /\ raised' = IF join(self, table).status = "ok" THEN ""
                         ELSE join(self, table).status
            /\ UNCHANGED <<tables_class, column_objects, table_objects,
                           data_type_objects, database_objects, columns_classes,
                           columns_containers, class_tables,
                           tables_containers>>
            /\ UNCHANGED <<transpiler_vars, drop_vars, insert_vars, condition_vars, conversion_vars, alias_vars, write_vars, returning_vars, filter_vars, cache_vars, concurrent_vars, transaction_vars>>

NextSchema ==
    \/ DeclareColumns
    \/ InstantiateColumns
    \/ InstantiateTable
    \/ InstantiateTables
    \/ ConstructDatabase
    \/ JoinTables

SpecSchema == InitSchema /\ [][NextSchema]_vars

(***************************************************************************)
(* What the claims about the objects speak of.                             *)
(***************************************************************************)
\* the databases whose construction returned
Constructed ==
    {database \in 1..Len(database_objects) :
        database_objects[database].raised = ""}

\* the tables of the container a database was constructed over
DatabaseTables(database) ==
    Range(tables_containers[database_objects[database].tables])

\* C12: in every constructed database, a column with a reference refers
\* to a column of a table of the same database, and is listed among the
\* foreign keys of the column it refers to.
C12_ReferencesStayInsideTheDatabase ==
    \A database \in Constructed :
        \A table \in DatabaseTables(database) :
            \A c \in Range(table_objects[table].columns) :
                LET r == column_objects[c].reference
                IN r # 0 =>
                    /\ column_objects[r].table \in DatabaseTables(database)
                    /\ r \in Range(table_objects[column_objects[r].table].columns)
                    /\ c \in Range(column_objects[r]._foreign_keys)

\* a second tables container was instantiated after a database was
\* constructed over the first, whose meanings table refers to its words
\* table
C12_Witness ==
    /\ Len(tables_containers) = 2
    /\ \E database \in Constructed :
          /\ database_objects[database].tables = 1
          /\ \E table, other \in DatabaseTables(database) :
                /\ table_objects[table].name = "meanings"
                /\ table_objects[other].name = "words"
                /\ \E c \in Range(table_objects[table].columns) :
                      /\ column_objects[c].reference # 0
                      /\ column_objects[column_objects[c].reference].table = other

\* no two constructions were over the same tables container
OwnTablesContainers ==
    \A d1, d2 \in 1..Len(database_objects) :
        d1 # d2 => database_objects[d1].tables # database_objects[d2].tables

\* C13: when every database is constructed over its own tables container,
\* each column of each table of a database has that table as its table,
\* the table has the database as its database, and the column's data type
\* is bound to the database.
C13_OwnersAreTheDatabase ==
    OwnTablesContainers =>
        \A database \in 1..Len(database_objects) :
            /\ database \in Constructed
            /\ \A table \in DatabaseTables(database) :
                  /\ table_objects[table].database = database
                  /\ \A c \in Range(table_objects[table].columns) :
                        /\ column_objects[c].table = table
                        /\ data_type_objects[column_objects[c].data_type]
                               .database = database

\* two databases were constructed, each over its own container
C13_Witness ==
    /\ OwnTablesContainers
    /\ Cardinality(Constructed) = 2
    /\ \A database \in Constructed :
          \A table \in DatabaseTables(database) :
              table_objects[table].database = database

\* the foreign-key columns that link two tables: columns of the one that
\* refer to a column of the other
LinkingColumns(self, table) ==
    {c \in Range(table_objects[self].columns) :
        column_objects[c].reference \in Range(table_objects[table].columns)}
    \cup {c \in Range(table_objects[table].columns) :
        column_objects[c].reference \in Range(table_objects[self].columns)}

\* C14: table.join(other) returns a join exactly when one foreign-key
\* column links the two tables, and fails when none or more than one does;
\* the join it returns equates that column with the column it refers to.
C14_JoinNeedsExactlyOneLink ==
    joined.status # "none" =>
        /\ joined.status = "ok" <=>
               Cardinality(LinkingColumns(joined.self, joined.table)) = 1
        /\ joined.status = "ok" =>
               /\ joined.left \in LinkingColumns(joined.self, joined.table)
               /\ joined.right = column_objects[joined.left].reference

\* C26: every column object, an original that was deep-copied included,
\* is among the foreign keys of the column it refers to, and every foreign
\* key of a column refers to that column.
C26_ForeignKeysAreBidirectional ==
    \A c \in 1..Len(column_objects) :
        /\ column_objects[c].reference # 0 =>
              c \in Range(column_objects[column_objects[c].reference]._foreign_keys)
        /\ \A f \in Range(column_objects[c]._foreign_keys) :
              column_objects[f].reference = c

\* C27: the table of a column and the database of a table are assigned
\* once: no construction of a table or of a database gives another owner
\* to a column that has a table or to a table that has a database.
C27_BackReferencesAssignedOnce ==
    [][/\ \A c \in 1..Len(column_objects) :
             column_objects[c].table # 0 =>
                 column_objects'[c].table = column_objects[c].table
       /\ \A t \in 1..Len(table_objects) :
             table_objects[t].database # 0 =>
                 table_objects'[t].database = table_objects[t].database]_vars

\* the columns of the instances of the columns classes
CopiedColumns ==
    UNION {UNION {Range(columns_containers[class][k]) :
                     k \in 1..Len(columns_containers[class])} :
              class \in Classes}

\* C29: no deep copy of a column with a reference fails, the second
\* instantiation of a columns container and the second deep copy of a
\* table included, in whatever order the containers are instantiated; and
\* every copy made so far keeps its reference and its own entry among the
\* foreign keys of the column it refers to.
C29_CopyIsRepeatable ==
    /\ raised # "ValueError"
    /\ \A c \in CopiedColumns :
          column_objects[c].reference # 0 =>
              c \in Range(column_objects[column_objects[c].reference]._foreign_keys)

(***************************************************************************)
(* SQLRecord: the conversion of a value to its database and its JSON       *)
(* representation and back.  A Python value is [kind, text, parts]: kind   *)
(* is the name of its type, text its characters (str, enum member value),  *)
(* parts its numbers (bool, int, bytes, date, time, datetime).  A call     *)
(* returns [status, value]: status "ok", or the exception it raised.       *)
(***************************************************************************)
Value(kind, text, parts) == [kind |-> kind, text |-> text, parts |-> parts]
NoneValue == Value("NoneType", <<>>, <<>>)
Returned(value) == [status |-> "ok", value |-> value]
Raises(exception) == [status |-> exception, value |-> NoneValue]
NotConverted == [status |-> "none", value |-> NoneValue]

\* the second call is made on what the first returned
Bind(result, F(_)) == IF result.status = "ok" THEN F(result.value) ELSE result

Pad2(n) == IF n < 10 THEN <<"0">> \o IntToChars(n) ELSE IntToChars(n)
IsoDate(p) == IntToChars(p[1]) \o <<"-">> \o Pad2(p[2]) \o <<"-">> \o Pad2(p[3])
IsoTime(p) == Pad2(p[1]) \o <<":">> \o Pad2(p[2]) \o <<":">> \o Pad2(p[3])

\* value.isoformat() of a date, a time or a datetime
isoformat(value) ==
    IF value.kind = "date" THEN IsoDate(value.parts)
    ELSE IF value.kind = "time" THEN IsoTime(value.parts)
    ELSE IsoDate(SubSeq(value.parts, 1, 3)) \o <<"T">>
             \o IsoTime(SubSeq(value.parts, 4, 6))

IsDigits(s) == \A i \in 1..Len(s) : s[i] \in Digits
IsIsoDate(s) ==
    /\ Len(s) = 10 /\ s[5] = "-" /\ s[8] = "-"
    /\ IsDigits(SubSeq(s, 1, 4) \o SubSeq(s, 6, 7) \o SubSeq(s, 9, 10))
IsIsoTime(s) ==
    /\ Len(s) = 8 /\ s[3] = ":" /\ s[6] = ":"
    /\ IsDigits(SubSeq(s, 1, 2) \o SubSeq(s, 4, 5) \o SubSeq(s, 7, 8))
DateParts(s) ==
    <<CharsToInt(SubSeq(s, 1, 4)), CharsToInt(SubSeq(s, 6, 7)),
      CharsToInt(SubSeq(s, 9, 10))>>
TimeParts(s) ==
    <<CharsToInt(SubSeq(s, 1, 2)), CharsToInt(SubSeq(s, 4, 5)),
      CharsToInt(SubSeq(s, 7, 8))>>

\* datetime.date.fromisoformat(value): the text of a date, and nothing
\* after it
date_fromisoformat(value) ==
    IF value.kind # "str" THEN Raises("TypeError")
    ELSE IF IsIsoDate(value.text)
         THEN Returned(Value("date", <<>>, DateParts(value.text)))
         ELSE Raises("ValueError")

\* datetime.time.fromisoformat(value)
time_fromisoformat(value) ==
    IF value.kind # "str" THEN Raises("TypeError")
    ELSE IF IsIsoTime(value.text)
         THEN Returned(Value("time", <<>>, TimeParts(value.text)))
         ELSE Raises("ValueError")

\* datetime.datetime.fromisoformat(value)
datetime_fromisoformat(value) ==
    IF value.kind # "str" THEN Raises("TypeError")
    ELSE IF /\ Len(value.text) = 19
            /\ IsIsoDate(SubSeq(value.text, 1, 10))
            /\ IsIsoTime(SubSeq(value.text, 12, 19))
         THEN Returned(Value("datetime", <<>>,
                             DateParts(SubSeq(value.text, 1, 10))
                                 \o TimeParts(SubSeq(value.text, 12, 19))))
         ELSE Raises("ValueError")

\* the alphabet of base64
B64 ==
    <<"A","B","C","D","E","F","G","H","I","J","K","L","M","N","O","P",
      "Q","R","S","T","U","V","W","X","Y","Z","a","b","c","d","e","f",
      "g","h","i","j","k","l","m","n","o","p","q","r","s","t","u","v",
      "w","x","y","z","0","1","2","3","4","5","6","7","8","9","+","/">>
B64Index(c) == (CHOOSE i \in 1..64 : B64[i] = c) - 1

RECURSIVE b64encode(_)
\* base64.b64encode(b).decode("ascii")
b64encode(b) ==
    IF Len(b) = 0 THEN <<>>
    ELSE IF Len(b) = 1
         THEN <<B64[(b[1] \div 4) + 1], B64[((b[1] % 4) * 16) + 1], "=", "=">>
    ELSE IF Len(b) = 2
         THEN <<B64[(b[1] \div 4) + 1],
                B64[((b[1] % 4) * 16) + (b[2] \div 16) + 1],
                B64[((b[2] % 16) * 4) + 1], "=">>
    ELSE <<B64[(b[1] \div 4) + 1],
           B64[((b[1] % 4) * 16) + (b[2] \div 16) + 1],
           B64[((b[2] % 16) * 4) + (b[3] \div 64) + 1],
           B64[(b[3] % 64) + 1]>> \o b64encode(SubSeq(b, 4, Len(b)))

RECURSIVE b64decode(_)
\* base64.b64decode(s.encode("ascii")) of a text b64encode produced
b64decode(s) ==
    IF Len(s) = 0 THEN <<>>
    ELSE LET i == [k \in 1..4 |-> IF s[k] = "=" THEN 0 ELSE B64Index(s[k])]
             bytes == <<(i[1] * 4) + (i[2] \div 16),
                        ((i[2] % 16) * 16) + (i[3] \div 4),
                        ((i[3] % 4) * 64) + i[4]>>
         IN IF s[3] = "=" THEN SubSeq(bytes, 1, 1)
            ELSE IF s[4] = "=" THEN SubSeq(bytes, 1, 2)
            ELSE bytes \o b64decode(SubSeq(s, 5, Len(s)))

\* the built-in data types with the native type each declares
SQLDataTypes ==
    {[name |-> "BLOB", type |-> "bytes"],
     [name |-> "BOOLEAN", type |-> "bool"],
     [name |-> "DATE", type |-> "date"],
     [name |-> "DATETIME", type |-> "date"],
     [name |-> "FLOAT", type |-> "float"],
     [name |-> "INTEGER", type |-> "int"],
     [name |-> "TEXT", type |-> "str"],
     [name |-> "TIME", type |-> "date"]}

Temporal == {"DATE", "TIME", "DATETIME"}

\* item.data_type.to_database_converter(value), where the type has one
DataTypeToDatabase(item, value) ==
    IF item.database # "SQLiteDatabase" THEN Returned(value)
    ELSE IF item.data_type = "BOOLEAN"
         THEN IF value.kind = "NoneType" THEN Raises("TypeError")
              ELSE Returned(Value("int", <<>>, value.parts))
    ELSE IF item.data_type \in Temporal
         THEN IF value.kind = "NoneType" THEN Raises("AttributeError")
              ELSE Returned(Value("str", isoformat(value), <<>>))
    ELSE Returned(value)

\* item.data_type.from_database_converter(value), where the type has one
DataTypeFromDatabase(item, value) ==
    IF item.data_type = "BOOLEAN"
    THEN Returned(Value("bool", <<>>,
                        IF value.kind = "NoneType" \/ value.parts = <<0>>
                        THEN <<0>> ELSE <<1>>))
    ELSE IF item.data_type \in Temporal /\ value.kind = "str"
         THEN IF item.data_type = "DATE" THEN date_fromisoformat(value)
              ELSE IF item.data_type = "TIME" THEN time_fromisoformat(value)
              ELSE datetime_fromisoformat(value)
    ELSE Returned(value)

\* item.to_database_converter(value): lambda value: value.value for a
\* column with an enum
ItemToDatabase(item, value) ==
    IF item.values = "" THEN Returned(value)
    ELSE IF value.kind = "NoneType" THEN Raises("AttributeError")
    ELSE Returned(Value("str", value.text, <<>>))

EnumValues == {<<"n","o","u","n">>, <<"v","e","r","b">>}

\* item.from_database_converter(value): the enum class called on the value
ItemFromDatabase(item, value) ==
    IF item.values = "" THEN Returned(value)
    ELSE IF value.kind = "str" /\ value.text \in EnumValues
         THEN Returned(Value(item.values, value.text, <<>>))
    ELSE Raises("ValueError")

SQLRecord_to_database_value(item, value) ==
    Bind(ItemToDatabase(item, value), LAMBDA v : DataTypeToDatabase(item, v))

SQLRecord_from_database_value(item, value) ==
    Bind(DataTypeFromDatabase(item, value),
         LAMBDA v : ItemFromDatabase(item, v))

SQLRecord_to_json_value(item, value) ==
    Bind(ItemToDatabase(item, value),
         LAMBDA v :
             IF v.kind = "bytes"
             THEN Returned(Value("str", b64encode(v.parts), <<>>))
             ELSE IF v.kind \in {"date", "datetime", "time"}
                  THEN Returned(Value("str", isoformat(v), <<>>))
                  ELSE Returned(v))

SQLRecord_from_json_value(item, value) ==
    Bind(IF item.type = "bytes"
         THEN IF value.kind # "str" THEN Raises("AttributeError")
              ELSE Returned(Value("bytes", <<>>, b64decode(value.text)))
         ELSE IF item.type = "date" THEN date_fromisoformat(value)
         ELSE IF item.type = "datetime" THEN datetime_fromisoformat(value)
         ELSE IF item.type = "time" THEN time_fromisoformat(value)
         ELSE Returned(value),
         LAMBDA v : ItemFromDatabase(item, v))

\* the columns: a data type bound to a database, with or without an enum
Items ==
    {[data_type |-> t.name, type |-> t.type, database |-> d, values |-> e] :
        t \in SQLDataTypes, d \in {"SQLiteDatabase", "SQLServerDatabase"},
        e \in {"", "EPartOfSpeech"}}

\* values of the native kind of a column
NativeValues(item) ==
    IF item.values # ""
    THEN {Value(item.values, text, <<>>) : text \in EnumValues}
    ELSE CASE item.data_type = "BLOB" ->
                {Value("bytes", <<>>, b) :
                    b \in {<<>>, <<0>>, <<0, 255>>, <<77, 97, 110>>,
                           <<255, 254, 253, 252>>}}
           [] item.data_type = "BOOLEAN" ->
                {Value("bool", <<>>, <<0>>), Value("bool", <<>>, <<1>>)}
           [] item.data_type = "DATE" ->
                {Value("date", <<>>, p) :
                    p \in {<<2024, 1, 2>>, <<1999, 12, 31>>}}
           [] item.data_type = "TIME" ->
                {Value("time", <<>>, p) : p \in {<<0, 0, 0>>, <<12, 30, 5>>}}
           [] item.data_type = "DATETIME" ->
                {Value("datetime", <<>>, p) :
                    p \in {<<2024, 1, 2, 12, 30, 5>>,
                           <<1999, 12, 31, 0, 0, 0>>}}
           [] item.data_type = "FLOAT" -> {Value("float", <<>>, <<1, 5>>)}
           [] item.data_type = "INTEGER" ->
                {Value("int", <<>>, <<0>>), Value("int", <<>>, <<18>>)}
           [] item.data_type = "TEXT" ->
                {Value("str", <<"a">>, <<>>), Value("str", <<>>, <<>>)}

InitConversion ==
    /\ conv_item \in {item \in Items :
                         item.values # "" => item.data_type = "TEXT"}
    /\ conv_value \in NativeValues(conv_item) \cup {NoneValue}
    /\ from_database = NotConverted
    /\ from_json = NotConverted
    /\ TranspilerIdle
    /\ DropIdle
    /\ InsertIdle
    /\ ConditionIdle
    /\ SchemaIdle
    /\ AliasIdle
    /\ WriteIdle
    /\ ReturningIdle
    /\ FilterIdle
    /\ CacheIdle
    /\ ConcurrentIdle
    /\ TransactionIdle

\* from_database_value(item, to_database_value(item, value))
ToAndFromDatabase ==
    /\ from_database = NotConverted
    /\ from_database' =
           Bind(SQLRecord_to_database_value(conv_item, conv_value),
                LAMBDA v : SQLRecord_from_database_value(conv_item, v))
    /\ UNCHANGED <<conv_item, conv_value, from_json>>
    /\ UNCHANGED <<transpiler_vars, drop_vars, insert_vars, condition_vars, schema_vars, alias_vars, write_vars, returning_vars, filter_vars, cache_vars, concurrent_vars, transaction_vars>>

\* from_json_value(item, to_json_value(item, value))
ToAndFromJson ==
    /\ from_json = NotConverted
    /\ from_json' =
           Bind(SQLRecord_to_json_value(conv_item, conv_value),
                LAMBDA v : SQLRecord_from_json_value(conv_item, v))
    /\ UNCHANGED <<conv_item, conv_value, from_database>>
    /\ UNCHANGED <<transpiler_vars, drop_vars, insert_vars, condition_vars, schema_vars, alias_vars, write_vars, returning_vars, filter_vars, cache_vars, concurrent_vars, transaction_vars>>

NextConversion == ToAndFromDatabase \/ ToAndFromJson

SpecConversion == InitConversion /\ [][NextConversion]_vars

\* C15: converting a value of a column's native kind, or None, to its
\* database representation and back gives the value, for every built-in
\* data type of either database and for a column with an enum.
C15_DatabaseRoundTrip ==
    from_database.status # "none" => from_database = Returned(conv_value)

\* C16: converting a bytes, date, time or datetime value of a BLOB, DATE,
\* TIME or DATETIME column to its JSON representation and back gives the
\* value.
C16_JsonRoundTrip ==
    (/\ from_json.status # "none"
     /\ conv_item.data_type \in {"BLOB", "DATE", "TIME", "DATETIME"}
     /\ conv_value \in NativeValues(conv_item)) =>
        from_json = Returned(conv_value)

(***************************************************************************)
(* SQLRecord: aliases.  A text with dots is the sequence of its parts, so  *)
(* an f-string with dots concatenates and split(".") gives the parts.  A   *)
(* column is [table, column], its place in database.tables; a function is  *)
(* [function, table, column] with table = column = 0 when it has no        *)
(* column.  "" is None.                                                    *)
(***************************************************************************)
NoItem == [function |-> "", table |-> 0, column |-> 0]
NotResolved == [status |-> "none", item |-> NoItem]
Resolved(item) == [status |-> "ok", item |-> item]
ResolveRaises(exception) == [status |-> exception, item |-> NoItem]

\* SQLTable.schema_name
schema_name(database, table) ==
    IF table._schema_name # "" THEN table._schema_name
    ELSE database.default_schema_name

\* f"{...}": None is written as the text None
Str(text) == IF text = "" THEN "None" ELSE text

get_table_fully_qualified_name(database, table) ==
    IF database.class = "SQLiteDatabase"
    THEN IF database.attached_databases
         THEN <<database.name, table.name>>
         ELSE <<table.name>>
    ELSE <<database.name, Str(schema_name(database, table)), table.name>>

SQLColumn_fully_qualified_name(database, item) ==
    get_table_fully_qualified_name(database, database.tables[item.table])
        \o <<database.tables[item.table].columns[item.column]>>

SQLColumn_alias(database, item) ==
    <<"COLUMN">> \o SQLColumn_fully_qualified_name(database, item)

SQLFunction_alias(database, item) ==
    IF item.column = 0 THEN <<"FUNCTION", item.function>>
    ELSE <<"FUNCTION", item.function>> \o SQLColumn_alias(database, item)

ItemAlias(database, item) ==
    IF item.function = "" THEN SQLColumn_alias(database, item)
    ELSE SQLFunction_alias(database, item)

\* list.index(x), for x in list
index(list, x) == CHOOSE i \in 1..Len(list) :
    list[i] = x /\ \A j \in 1..(i - 1) : list[j] # x

\* [has_table: the table and the column name are not None]
_parse_alias(alias_parts) ==
    LET has_function == "FUNCTION" \in Range(alias_parts)
        has_column == "COLUMN" \in Range(alias_parts)
        function_identifier_index == index(alias_parts, "FUNCTION")
        column_identifier_index == index(alias_parts, "COLUMN")
        column_fully_qualified_name_parts ==
            SubSeq(alias_parts, column_identifier_index + 1, Len(alias_parts))
    IN IF has_function /\ function_identifier_index = Len(alias_parts)
       THEN [status |-> "IndexError", function_name |-> "",
             has_table |-> FALSE, table_fully_qualified_name |-> <<>>,
             column_name |-> ""]
       ELSE IF has_column /\ column_fully_qualified_name_parts = <<>>
       THEN [status |-> "IndexError", function_name |-> "",
             has_table |-> FALSE, table_fully_qualified_name |-> <<>>,
             column_name |-> ""]
       ELSE [status |-> "ok",
             function_name |->
                 IF has_function
                 THEN alias_parts[function_identifier_index + 1] ELSE "",
             has_table |-> has_column,
             table_fully_qualified_name |->
                 IF has_column
                 THEN SubSeq(column_fully_qualified_name_parts, 1,
                             Len(column_fully_qualified_name_parts) - 1)
                 ELSE <<>>,
             column_name |->
                 IF has_column
                 THEN column_fully_qualified_name_parts[
                          Len(column_fully_qualified_name_parts)]
                 ELSE ""]

\* "".split(".") is [""]
split(parts) == IF parts = <<>> THEN <<"">> ELSE parts

_parse_table_fully_qualified_name(database, table_fully_qualified_name) ==
    LET parts == split(table_fully_qualified_name)
    IN IF database.class = "SQLiteDatabase"
       THEN IF Len(parts) = 1
            THEN [status |-> "ok", database_name |-> "",
                  schema_name |-> "", table_name |-> parts[1]]
            ELSE IF Len(parts) = 2
            THEN [status |-> "ok", database_name |-> parts[1],
                  schema_name |-> "", table_name |-> parts[2]]
            ELSE [status |-> "AssertionError", database_name |-> "",
                  schema_name |-> "", table_name |-> ""]
       ELSE IF Len(parts) = 3
            THEN [status |-> "ok", database_name |-> parts[1],
                  schema_name |-> parts[2], table_name |-> parts[3]]
            ELSE [status |-> "AssertionError", database_name |-> "",
                  schema_name |-> "", table_name |-> ""]

\* [status, table]: the place of the table in database.tables
get_table(database, table_fully_qualified_name) ==
    LET parsed == _parse_table_fully_qualified_name(
                      database, table_fully_qualified_name)
        found == {t \in 1..Len(database.tables) :
                     /\ database.tables[t].name = parsed.table_name
                     /\ schema_name(database, database.tables[t])
                            = parsed.schema_name}
    IN IF parsed.status # "ok" THEN [status |-> parsed.status, table |-> 0]
       ELSE IF parsed.database_name # ""
               /\ parsed.database_name # database.name
            THEN [status |-> "KeyError", table |-> 0]
       ELSE IF found = {} THEN [status |-> "AssertionError", table |-> 0]
       ELSE [status |-> "ok", table |-> Min(found)]

\* [status, column]: the place of the column in table.columns
get_column(table, column_name) ==
    IF column_name \in Range(table.columns)
    THEN [status |-> "ok", column |-> index(table.columns, column_name)]
    ELSE [status |-> "AssertionError", column |-> 0]

\* the function classes of SQLFunctions, by name
SQLFunctions == {"count", "min", "max", "sum", "avg"}
SQLFunctionWithMandatoryColumn == {"min", "max", "sum", "avg"}

_get_item_by_alias(alias_parts, database) ==
    LET parsed == _parse_alias(alias_parts)
        table == get_table(database, parsed.table_fully_qualified_name)
        column == get_column(database.tables[table.table], parsed.column_name)
    IN IF parsed.status # "ok" THEN ResolveRaises(parsed.status)
       ELSE IF parsed.has_table /\ table.status # "ok"
            THEN ResolveRaises(table.status)
       ELSE IF parsed.has_table /\ column.status # "ok"
            THEN ResolveRaises(column.status)
       ELSE IF parsed.function_name # ""
            THEN IF parsed.function_name \notin SQLFunctions
                 THEN ResolveRaises("ValueError")
                 ELSE IF ~parsed.has_table
                         /\ parsed.function_name
                                \in SQLFunctionWithMandatoryColumn
                 THEN ResolveRaises("AssertionError")
                 ELSE Resolved([function |-> parsed.function_name,
                                table |-> IF parsed.has_table
                                          THEN table.table ELSE 0,
                                column |-> IF parsed.has_table
                                           THEN column.column ELSE 0])
       ELSE IF parsed.has_table
            THEN Resolved([function |-> "", table |-> table.table,
                           column |-> column.column])
       ELSE ResolveRaises("AssertionError")

\* the databases: tables words and meanings; a name in upper case may be
\* the name of a column
ColumnNames == {"word", "COLUMN", "FUNCTION"}

AliasTables(column_name, meanings_schema) ==
    <<[name |-> "words", _schema_name |-> "",
       columns |-> <<"id", column_name>>],
      [name |-> "meanings", _schema_name |-> meanings_schema,
       columns |-> <<"id", "word_id">>]>>

AliasDatabases ==
    {[class |-> "SQLiteDatabase", name |-> "main",
      default_schema_name |-> "", attached_databases |-> a,
      tables |-> AliasTables(c, "")] : a \in BOOLEAN, c \in ColumnNames}
    \cup
    {[class |-> "SQLServerDatabase", name |-> "dictionary",
      default_schema_name |-> "dbo", attached_databases |-> a,
      tables |-> AliasTables(c, s)] :
        a \in BOOLEAN, c \in ColumnNames, s \in {"", "lexicon"}}

AliasColumns(database) ==
    {[function |-> "", table |-> t, column |-> c] :
        t \in 1..Len(database.tables), c \in 1..2}

\* the columns of the database's tables, and the functions on them
AliasItems(database) ==
    AliasColumns(database)
    \cup {[function |-> "count", table |-> 0, column |-> 0]}
    \cup {[function |-> f, table |-> i.table, column |-> i.column] :
             f \in {"count", "max"}, i \in AliasColumns(database)}

InitAlias ==
    /\ alias_database \in AliasDatabases
    /\ alias_item \in AliasItems(alias_database)
    /\ resolved = NotResolved
    /\ TranspilerIdle
    /\ DropIdle
    /\ InsertIdle
    /\ ConditionIdle
    /\ SchemaIdle
    /\ ConversionIdle
    /\ WriteIdle
    /\ ReturningIdle
    /\ FilterIdle
    /\ CacheIdle
    /\ ConcurrentIdle
    /\ TransactionIdle

\* SQLRecord._get_item_by_alias(item.alias, database)
ResolveAlias ==
    /\ resolved = NotResolved
    /\ resolved' = _get_item_by_alias(ItemAlias(alias_database, alias_item),
                                      alias_database)
    /\ UNCHANGED <<alias_database, alias_item>>
    /\ UNCHANGED <<transpiler_vars, drop_vars, insert_vars, condition_vars, schema_vars, conversion_vars, write_vars, returning_vars, filter_vars, cache_vars, concurrent_vars, transaction_vars>>

NextAlias == ResolveAlias

SpecAlias == InitAlias /\ [][NextAlias]_vars

\* the table path of an item's alias: the parts that name its table
TablePath(database, item) ==
    IF item.table = 0 THEN <<>>
    ELSE get_table_fully_qualified_name(database, database.tables[item.table])

\* C17: for every column of a database's tables and every function on none
\* or one of them, when the table path has neither the part FUNCTION nor
\* the part COLUMN, _get_item_by_alias on the item's alias returns the same
\* column, respectively the function of the same name on the same column.
C17_AliasResolvesToItsItem ==
    (/\ resolved.status # "none"
     /\ {"FUNCTION", "COLUMN"}
            \cap Range(TablePath(alias_database, alias_item)) = {}) =>
        resolved = Resolved(alias_item)

(***************************************************************************)
(* SQLDatabase.insert_records, update_records, delete_records and the      *)
(* driver.  The driver answers an execute with a cursor that has a         *)
(* description (a result set) or none and the rows of the result set, or   *)
(* it raises.                                                              *)
(***************************************************************************)
MaxRecords == 3       \* records handed to one insert_records call
RowIds == 1..2        \* the ids a result set may hold

Cursor(description, rows) ==
    [description |-> description, rows |-> rows, raised |-> ""]
DriverRaises(exception) ==
    [description |-> FALSE, rows |-> <<>>, raised |-> exception]
DriverExceptions == {"IntegrityError", "OperationalError"}

\* the answers of the driver to an INSERT of one record
InsertAnswers ==
    {Cursor(FALSE, <<>>), Cursor(TRUE, <<>>)}
    \cup {Cursor(TRUE, <<id>>) : id \in RowIds}
    \cup {DriverRaises(e) : e \in DriverExceptions}

\* the answers of the driver to an UPDATE or a DELETE
WriteAnswers ==
    {Cursor(FALSE, <<>>)}
    \cup {Cursor(TRUE, rows) : rows \in {s \in SeqsUpTo(RowIds, 2) : Injective(s)}}
    \cup {DriverRaises(e) : e \in DriverExceptions}

NotWritten == [status |-> "none", none |-> FALSE, ids |-> <<>>]
WriteRaised(exception) == [status |-> exception, none |-> FALSE, ids |-> <<>>]

\* one call of execute: the statement goes to the connection, and what the
\* connection raises is raised
SQLDatabase_execute_Masked(calls, answer) ==
    [calls |-> Append(calls, "execute"), raised |-> ""]

SQLDatabase_execute(calls, answer) ==
    [calls |-> Append(calls, "execute"), raised |-> answer.raised]

\* [none: the result is None]
_fetch_ids(cursor) ==
    IF cursor.description
    THEN [status |-> "ok", none |-> FALSE, ids |-> cursor.rows]
    ELSE [status |-> "ok", none |-> TRUE, ids |-> <<>>]

InitWrite ==
    /\ write_operation
           \in {"insert_records", "update_records", "delete_records"}
    /\ write_records \in IF write_operation = "insert_records"
                         THEN 1..MaxRecords ELSE {1}
    /\ write_pc = "called"
    /\ cursors = <<>>
    /\ connection_calls = <<>>
    /\ fetched_ids = <<>>
    /\ write_returned = NotWritten
    /\ TranspilerIdle
    /\ DropIdle
    /\ InsertIdle
    /\ ConditionIdle
    /\ SchemaIdle
    /\ ConversionIdle
    /\ AliasIdle
    /\ ReturningIdle
    /\ FilterIdle
    /\ CacheIdle
    /\ ConcurrentIdle
    /\ TransactionIdle

\* one iteration of the for loop of insert_records
InsertRecord ==
    /\ write_pc = "called"
    /\ write_operation = "insert_records"
    /\ Len(cursors) < write_records
    /\ \E answer \in InsertAnswers :
          LET call == SQLDatabase_execute(connection_calls, answer)
          IN /\ cursors' = Append(cursors, answer)
             /\ connection_calls' = call.calls
             /\ IF call.raised # ""
                THEN /\ write_pc' = "returned"
                     /\ write_returned' = WriteRaised(call.raised)
                     /\ UNCHANGED fetched_ids
                ELSE /\ fetched_ids' =
                            IF answer.description /\ answer.rows # <<>>
                            THEN Append(fetched_ids, answer.rows[1])
                            ELSE fetched_ids
                     /\ UNCHANGED <<write_pc, write_returned>>
    /\ UNCHANGED <<write_operation, write_records>>
    /\ UNCHANGED <<transpiler_vars, drop_vars, insert_vars, condition_vars, schema_vars, conversion_vars, alias_vars, returning_vars, filter_vars, cache_vars, concurrent_vars, transaction_vars>>

\* return ids if len(ids) else None
ReturnInserted ==
    /\ write_pc = "called"
    /\ write_operation = "insert_records"
    /\ Len(cursors) = write_records
    /\ write_pc' = "returned"
    /\ write_returned' = [status |-> "ok", none |-> Len(fetched_ids) = 0,
                          ids |-> fetched_ids]
    /\ UNCHANGED <<write_operation, write_records, cursors, connection_calls,
                   fetched_ids>>
    /\ UNCHANGED <<transpiler_vars, drop_vars, insert_vars, condition_vars, schema_vars, conversion_vars, alias_vars, returning_vars, filter_vars, cache_vars, concurrent_vars, transaction_vars>>

\* update_records and delete_records: one execution, then _fetch_ids
ExecuteAndFetchIds(operation) ==
    /\ write_pc = "called"
    /\ write_operation = operation
    /\ \E answer \in WriteAnswers :
          LET call == SQLDatabase_execute(connection_calls, answer)
          IN /\ cursors' = Append(cursors, answer)
             /\ connection_calls' = call.calls
             /\ write_returned' = IF call.raised # ""
                                  THEN WriteRaised(call.raised)
                                  ELSE _fetch_ids(answer)
    /\ write_pc' = "returned"
    /\ UNCHANGED <<write_operation, write_records, fetched_ids>>
    /\ UNCHANGED <<transpiler_vars, drop_vars, insert_vars, condition_vars, schema_vars, conversion_vars, alias_vars, returning_vars, filter_vars, cache_vars, concurrent_vars, transaction_vars>>

UpdateRecords == ExecuteAndFetchIds("update_records")

DeleteRecords == ExecuteAndFetchIds("delete_records")

NextWrite ==
    InsertRecord \/ ReturnInserted \/ UpdateRecords \/ DeleteRecords

SpecWrite == InitWrite /\ [][NextWrite]_vars

RECURSIVE ResultRows(_)
\* the rows of the result sets, one after the other
ResultRows(answers) ==
    IF answers = <<>> THEN <<>>
    ELSE answers[1].rows \o ResultRows(Tail(answers))

HasResultSet == \E i \in 1..Len(cursors) : cursors[i].description

\* C18: insert_records, update_records and delete_records return None
\* exactly when no executed statement produced a result set, and the list
\* of the returned ids whenever a result set exists.
C18_NoneIffNoResultSet ==
    (write_pc = "returned" /\ write_returned.status = "ok") =>
        /\ write_returned.none <=> ~HasResultSet
        /\ HasResultSet => write_returned.ids = ResultRows(cursors)

RaisedAt(k) == k \in 1..Len(cursors) /\ cursors[k].raised # ""

\* C19: when the driver raises while insert_records executes the k-th
\* record, the call raises that exception, the k-th execution is the last
\* call on the connection (no retry, no later record, no commit and no
\* rollback).
C19_DriverErrorStopsTheBatch ==
    \A k \in 1..MaxRecords :
        (write_operation = "insert_records" /\ RaisedAt(k)) =>
            /\ write_pc = "returned"
            /\ write_returned.status = cursors[k].raised
            /\ Len(cursors) = k
            /\ connection_calls = [i \in 1..k |-> "execute"]

\* the second of three records raised
C19_Witness ==
    /\ write_operation = "insert_records"
    /\ write_records = 3
    /\ RaisedAt(2)
    /\ cursors[1].rows # <<>>
    /\ write_pc = "returned"

(***************************************************************************)
(* SQLTranspiler: the RETURNING and OUTPUT clauses.  A parsed statement is *)
(* [kind, returning, where]: the class of the expression, its RETURNING    *)
(* clause [present, columns] and whether it has a WHERE clause.  A column  *)
(* is [table, this], the characters of its qualifier (none: <<>>) and of   *)
(* its name.                                                               *)
(***************************************************************************)
MaxReturning == 2     \* columns of a RETURNING clause

LowerCase ==
    <<"a","b","c","d","e","f","g","h","i","j","k","l","m",
      "n","o","p","q","r","s","t","u","v","w","x","y","z">>
UpperCase ==
    <<"A","B","C","D","E","F","G","H","I","J","K","L","M",
      "N","O","P","Q","R","S","T","U","V","W","X","Y","Z">>

\* str.upper
upper(s) ==
    [i \in 1..Len(s) |->
        IF s[i] \in Range(LowerCase)
        THEN UpperCase[CHOOSE k \in 1..26 : LowerCase[k] = s[i]]
        ELSE s[i]]

\* str.startswith
startswith(s, prefix) ==
    Len(s) >= Len(prefix) /\ SubSeq(s, 1, Len(prefix)) = prefix

Whitespace == {" ", "\n", "\t"}

RECURSIVE rstrip(_)
rstrip(s) ==
    IF s # <<>> /\ s[Len(s)] \in Whitespace
    THEN rstrip(SubSeq(s, 1, Len(s) - 1)) ELSE s

\* str.strip()
strip(s) == rstrip(lstrip(s, Whitespace))

NoReturning == [present |-> FALSE, columns |-> <<>>]

virtual_table_name(kind) ==
    IF kind \in {"Insert", "Update"} THEN <<"I","N","S","E","R","T","E","D">> ELSE <<"D","E","L","E","T","E","D">>

\* the body of the loop over the columns of the clause
UpdateColumn(column, kind, target) ==
    LET virtual == virtual_table_name(kind)
    IN IF target = SQLSERVER THEN [column EXCEPT !.table = virtual]
       ELSE IF target \in {SQLITE, POSTGRESQL} /\ column.table # <<>>
       THEN IF upper(column.table) = virtual
            THEN [column EXCEPT !.table = <<>>]
            ELSE IF startswith(upper(column.table), virtual \o <<".">>)
            THEN [column EXCEPT !.table =
                     SubSeq(column.table, Len(virtual) + 2,
                            Len(column.table))]
            ELSE column
       ELSE column

\* [status, parsed_sql]: the statement after the call, or AssertionError
_update_returning_and_output_clause(expression, target) ==
    IF ~expression.returning.present
    THEN [status |-> "ok", parsed_sql |-> expression]
    ELSE IF target = MYSQL
    THEN [status |-> "ok",
          parsed_sql |-> [expression EXCEPT !.returning = NoReturning]]
    ELSE IF expression.kind \notin {"Insert", "Update", "Delete"}
    THEN [status |-> "AssertionError", parsed_sql |-> expression]
    ELSE [status |-> "ok",
          parsed_sql |->
              [expression EXCEPT !.returning.columns =
                  [i \in 1..Len(@) |->
                      UpdateColumn(@[i], expression.kind, target)]]]

RECURSIVE ColumnList(_)
\* the columns of a clause, written with their qualifiers
ColumnList(columns) ==
    LET first == IF columns[1].table = <<>> THEN columns[1].this
                 ELSE columns[1].table \o <<".">> \o columns[1].this
    IN IF Len(columns) = 1 THEN first
       ELSE first \o <<","," ">> \o ColumnList(Tail(columns))

\* Expression.sql(dialect) of sqlglot for the statements of the model: the
\* generator of T-SQL writes the clause as OUTPUT, before VALUES, before
\* WHERE and, in a DELETE, before FROM; the others write RETURNING last
GenerateSql(expression, target) ==
    LET clause == IF ~expression.returning.present THEN <<>>
                  ELSE IF target = SQLSERVER
                  THEN <<" ","O","U","T","P","U","T"," ">> \o ColumnList(expression.returning.columns)
                  ELSE <<" ","R","E","T","U","R","N","I","N","G"," ">>
                           \o ColumnList(expression.returning.columns)
        front == IF target = SQLSERVER THEN clause ELSE <<>>
        back == IF target = SQLSERVER THEN <<>> ELSE clause
        where == IF expression.where THEN <<" ","W","H","E","R","E"," ","i","d"," ","="," ","1">> ELSE <<>>
    IN IF expression.kind = "Insert"
       THEN <<"I","N","S","E","R","T"," ","I","N","T","O"," ","u","s","e","r","s"," ","(","a","g","e",")">> \o front \o <<" ","V","A","L","U","E","S"," ","(","1","8",")">> \o back
       ELSE IF expression.kind = "Update"
       THEN <<"U","P","D","A","T","E"," ","u","s","e","r","s"," ","S","E","T"," ","a","g","e"," ","="," ","1","8">> \o front \o where \o back
       ELSE <<"D","E","L","E","T","E">> \o front \o <<" ","F","R","O","M"," ","u","s","e","r","s">> \o where \o back

\* \bword\b at index i of the text
WordAt(text, i, word) ==
    /\ i >= 1
    /\ i + Len(word) - 1 <= Len(text)
    /\ SubSeq(text, i, i + Len(word) - 1) = word
    /\ i = 1 \/ text[i - 1] \notin NameChar
    /\ i + Len(word) > Len(text) \/ text[i + Len(word)] \notin NameChar

_update_output_clause_Kept(text, target) == text

\* the regular expression DELETE\s(OUTPUT.*?)(FROM.*?)(?=WHERE|$), found
\* once, and its replacement
_update_output_clause(text, target) ==
    LET FromAfter(p) == {q \in (p + 13)..Len(text) : WordAt(text, q, <<"F","R","O","M">>)}
        starts == {p \in 1..Len(text) :
                      /\ p + 6 <= Len(text)
                      /\ SubSeq(text, p, p + 5) = <<"D","E","L","E","T","E">>
                      /\ text[p + 6] \in Whitespace
                      /\ WordAt(text, p + 7, <<"O","U","T","P","U","T">>)
                      /\ FromAfter(p) # {}}
        p == Min(starts)
        q == Min(FromAfter(p))
        r == Min({k \in (q + 4)..(Len(text) + 1) :
                     k = Len(text) + 1 \/ WordAt(text, k, <<"W","H","E","R","E">>)})
        output_clause == SubSeq(text, p + 7, q - 1)
        from_clause == SubSeq(text, q, r - 1)
    IN IF target # SQLSERVER \/ starts = {} THEN text
       ELSE SubSeq(text, 1, p - 1) \o <<"D","E","L","E","T","E"," ">> \o strip(from_clause)
                \o <<"\n">> \o strip(output_clause) \o <<"\n">>
                \o SubSeq(text, r, Len(text))

\* transpile_sql on a parsed statement: the statement is updated, written
\* in the target dialect, and the text is updated; the statements of the
\* model hold no parameter and no placeholder, so there is none to rewrite
TranspileParsed(expression, target) ==
    LET result == _update_returning_and_output_clause(expression, target)
    IN IF result.status # "ok"
       THEN [status |-> result.status, parsed_sql |-> expression,
             text |-> <<>>]
       ELSE [status |-> "ok", parsed_sql |-> result.parsed_sql,
             text |-> _update_output_clause(
                          GenerateSql(result.parsed_sql, target), target)]

\* the qualifiers a column of the clause is written with
Qualifiers ==
    {<<>>, <<"u","s","e","r","s">>, <<"I","N","S","E","R","T","E","D">>, <<"i","n","s","e","r","t","e","d">>, <<"D","E","L","E","T","E","D">>, <<"D","e","l","e","t","e","d">>,
     <<"i","n","s","e","r","t","e","d",".","u","s","e","r","s">>, <<"D","E","L","E","T","E","D",".","u","s","e","r","s">>}

\* the name of the i-th column of a clause
ColumnNameAt(i) ==
    IF i = 1 THEN <<"i","d">> ELSE IF i = 2 THEN <<"n","a","m","e">> ELSE <<"c">> \o IntToChars(i)

ReturningClauses ==
    {NoReturning}
    \cup {[present |-> TRUE,
           columns |-> [i \in 1..Len(qualifiers) |->
                           [table |-> qualifiers[i], this |-> ColumnNameAt(i)]]] :
             qualifiers \in SeqsUpTo(Qualifiers, MaxReturning) \ {<<>>}}

NotUpdated ==
    [status |-> "none",
     parsed_sql |-> [kind |-> "", returning |-> NoReturning, where |-> FALSE],
     text |-> <<>>]

InitReturning ==
    /\ parsed_sql \in [kind : {"Insert", "Update", "Delete"},
                       returning : ReturningClauses,
                       where : BOOLEAN]
    /\ parsed_sql.kind = "Insert" => ~parsed_sql.where
    /\ target_dialect \in ESQLDialect
    /\ updated = NotUpdated
    /\ TranspilerIdle
    /\ DropIdle
    /\ InsertIdle
    /\ ConditionIdle
    /\ SchemaIdle
    /\ ConversionIdle
    /\ AliasIdle
    /\ WriteIdle
    /\ FilterIdle
    /\ CacheIdle
    /\ ConcurrentIdle
    /\ TransactionIdle

UpdateReturning ==
    /\ updated.status = "none"
    /\ updated' = TranspileParsed(parsed_sql, target_dialect)
    /\ UNCHANGED <<parsed_sql, target_dialect>>
    /\ UNCHANGED <<transpiler_vars, drop_vars, insert_vars, condition_vars, schema_vars, conversion_vars, alias_vars, write_vars, filter_vars, cache_vars, concurrent_vars, transaction_vars>>

NextReturning == UpdateReturning

SpecReturning == InitReturning /\ [][NextReturning]_vars

HadReturning == updated.status = "ok" /\ parsed_sql.returning.present

ClauseBefore == parsed_sql.returning.columns
ClauseAfter == updated.parsed_sql.returning.columns

\* the index of the first \bword\b of the text, 0 when there is none
IndexOfWord(text, word) ==
    LET hits == {i \in 1..Len(text) : WordAt(text, i, word)}
    IN IF hits = {} THEN 0 ELSE Min(hits)

\* for MySQL the clause is removed
MySqlDropsTheClause ==
    (HadReturning /\ target_dialect = MYSQL) =>
        /\ updated.parsed_sql = [parsed_sql EXCEPT !.returning = NoReturning]
        /\ IndexOfWord(updated.text, <<"R","E","T","U","R","N","I","N","G">>) = 0
        /\ IndexOfWord(updated.text, <<"O","U","T","P","U","T">>) = 0

\* for SQL Server every column is qualified with the virtual table, and the
\* OUTPUT clause of a DELETE stands after FROM and before WHERE
SqlServerUsesTheVirtualTable ==
    (HadReturning /\ target_dialect = SQLSERVER) =>
        /\ updated.parsed_sql.returning.present
        /\ Len(ClauseAfter) = Len(ClauseBefore)
        /\ \A i \in 1..Len(ClauseBefore) :
              ClauseAfter[i] =
                  [table |-> virtual_table_name(parsed_sql.kind),
                   this |-> ClauseBefore[i].this]
        /\ parsed_sql.kind = "Delete" =>
              LET from == IndexOfWord(updated.text, <<"F","R","O","M">>)
                  output == IndexOfWord(updated.text, <<"O","U","T","P","U","T">>)
                  where == IndexOfWord(updated.text, <<"W","H","E","R","E">>)
              IN /\ 0 < from
                 /\ from < output
                 /\ parsed_sql.where => output < where
                 /\ ~parsed_sql.where => where = 0

\* what SQLite and PostgreSQL keep of a qualifier, as claimed
QualifierAsClaimed(qualifier, kind) ==
    IF upper(qualifier) = virtual_table_name(kind) THEN <<>> ELSE qualifier

\* what they keep of it: a qualifier that starts with the virtual table and
\* a dot loses that prefix
QualifierKept(qualifier, kind) ==
    IF upper(qualifier) = virtual_table_name(kind) THEN <<>>
    ELSE IF startswith(upper(qualifier),
                       virtual_table_name(kind) \o <<".">>)
    THEN SubSeq(qualifier, Len(virtual_table_name(kind)) + 2, Len(qualifier))
    ELSE qualifier

OthersKeepTheClause(Kept(_, _)) ==
    (HadReturning /\ target_dialect \in {SQLITE, POSTGRESQL}) =>
        /\ updated.parsed_sql.returning.present
        /\ updated.parsed_sql.kind = parsed_sql.kind
        /\ updated.parsed_sql.where = parsed_sql.where
        /\ Len(ClauseAfter) = Len(ClauseBefore)
        /\ \A i \in 1..Len(ClauseBefore) :
              ClauseAfter[i] =
                  [table |-> Kept(ClauseBefore[i].table, parsed_sql.kind),
                   this |-> ClauseBefore[i].this]
        /\ updated.text = GenerateSql(updated.parsed_sql, target_dialect)

\* a statement without the clause is not changed
WithoutClauseUnchanged ==
    (updated.status = "ok" /\ ~parsed_sql.returning.present) =>
        /\ updated.parsed_sql = parsed_sql
        /\ updated.text = GenerateSql(parsed_sql, target_dialect)

\* C20 as stated: with a RETURNING clause, MySQL loses the clause; SQL
\* Server gets every returned column qualified with INSERTED (INSERT,
\* UPDATE) or DELETED (DELETE) and a DELETE's OUTPUT clause after FROM and
\* before WHERE; SQLite and PostgreSQL lose a qualifier equal to that
\* virtual table and keep the rest; without the clause nothing changes.
C20_AsClaimed ==
    /\ MySqlDropsTheClause
    /\ SqlServerUsesTheVirtualTable
    /\ OthersKeepTheClause(QualifierAsClaimed)
    /\ WithoutClauseUnchanged

\* C20, amended: as stated, and for SQLite and PostgreSQL a qualifier that
\* starts with the virtual table and a dot loses that prefix.
C20_ReturningPerDialect ==
    /\ MySqlDropsTheClause
    /\ SqlServerUsesTheVirtualTable
    /\ OthersKeepTheClause(QualifierKept)
    /\ WithoutClauseUnchanged

\* a DELETE with WHERE whose clause returns deleted.id and users.name was
\* rewritten for SQL Server
C20_Witness ==
    /\ updated.status = "ok"
    /\ target_dialect = SQLSERVER
    /\ parsed_sql.kind = "Delete"
    /\ parsed_sql.where
    /\ Len(ClauseBefore) = 2
    /\ ClauseBefore[1].table = <<"D","e","l","e","t","e","d">>
    /\ ClauseBefore[2].table = <<"u","s","e","r","s">>
    /\ IndexOfWord(updated.text, <<"O","U","T","P","U","T">>)
           > IndexOfWord(updated.text, <<"F","R","O","M">>)

(***************************************************************************)
(* Conditions over columns with and without a table, and their SQL text.   *)
(* A text is the sequence of its pieces: the characters of the names and   *)
(* the operator as one piece.                                              *)
(***************************************************************************)
\* SQLColumn.fully_qualified_name
fully_qualified_name_of(column) ==
    IF column.table = <<>>
    THEN TextRaises("AttributeError")
    ELSE Text(column.table \o <<".">> \o column.name)

\* SQLColumn.generate_parameter_name, uuid being what uuid4().hex[:8] gave
generate_parameter_name_of(column, uuid) ==
    LET name == fully_qualified_name_of(column)
    IN IF name.status # "ok" THEN name
       ELSE Text(replace(name.text, ".", "_") \o <<"_">> \o uuid)

\* a value handed to a condition: a plain value or a column
PlainValue(plain) == [kind |-> "plain", plain |-> plain, column |-> NoColumn]
ColumnValue(column) == [kind |-> "column", plain |-> 0, column |-> column]

RECURSIVE ParseValues(_, _, _, _)
\* SQLCondition._parse_values for plain values and columns, up to the
\* position-th value: the texts of the values and the parameters, or the
\* exception that ended the loop
ParseValues(left, right, uuids, position) ==
    IF position = 0
    THEN [status |-> "ok", _values_to_sql |-> <<>>, parameters |-> <<>>]
    ELSE LET parsed == ParseValues(left, right, uuids, position - 1)
             value == right[position]
             failed(exception) ==
                 [status |-> exception, _values_to_sql |-> <<>>,
                  parameters |-> <<>>]
         IN IF parsed.status # "ok" THEN parsed
            ELSE IF value.kind = "column"
            THEN LET name == fully_qualified_name_of(value.column)
                 IN IF name.status # "ok" THEN failed(name.status)
                    ELSE [parsed EXCEPT
                             !._values_to_sql = Append(@, name.text)]
            ELSE LET parameter == generate_parameter_name_of(left, uuids[position])
                 IN IF parameter.status # "ok" THEN failed(parameter.status)
                    ELSE [status |-> "ok",
                          _values_to_sql |->
                              Append(parsed._values_to_sql,
                                     <<":">> \o parameter.text),
                          parameters |->
                              DictSet(parsed.parameters, parameter.text,
                                      to_database_value(left.name, value.plain))]

\* SQLCondition.__init__(left, operator, *right) for a column as left
SQLCondition__init__(left, operator, right, uuids) ==
    IF ~_validate_value_count(operator, right)
    THEN ConditionObject("AssertionError", left, operator, <<>>, <<>>)
    ELSE LET parsed == ParseValues(left, right, uuids, Len(right))
         IN ConditionObject(parsed.status, left, operator,
                            parsed._values_to_sql, parsed.parameters)

\* SQLCondition.to_sql for a column as left
SQLCondition_to_sql(self) ==
    LET E == ESQLComparisonOperator
        name == fully_qualified_name_of(self.left)
    IN IF name.status # "ok" THEN name
       ELSE LET head == name.text \o <<" ", self.operator>>
            IN IF self.operator \in {E["IS_NULL"], E["IS_NOT_NULL"]}
               THEN Text(head)
               ELSE IF self.operator \in {E["BETWEEN"], E["NOT_BETWEEN"]}
               THEN Text(head \o <<" ">> \o self._values_to_sql[1]
                         \o <<" ", "AND", " ">> \o self._values_to_sql[2])
               ELSE IF self.operator \in {E["IN"], E["NOT_IN"]}
               THEN Text(head \o <<" ", "(">>
                         \o Join(self._values_to_sql, <<",", " ">>)
                         \o <<")">>)
               ELSE Text(head \o <<" ">> \o self._values_to_sql[1])

\* SQLFilter.__init__ of the filter class of a member: the condition over
\* the member's operator
SQLFilter__init__(item, member, values, uuids) ==
    SQLCondition__init__(item, ESQLComparisonOperator[member], values, uuids)

\* the columns an application holds: w and k of the table t, and f which
\* was constructed and given to no table
FilterColumns ==
    {ColumnObject(W, TABLE), ColumnObject(K, TABLE), ColumnObject(<<"f">>, <<>>)}
\* the values it compares them with
FilterValues ==
    {PlainValue(18), ColumnValue(ColumnObject(K, TABLE)),
     ColumnValue(ColumnObject(<<"f">>, <<>>))}

InitFilter ==
    /\ filter_input \in [left : FilterColumns,
                         operator : DOMAIN ESQLComparisonOperator,
                         right : SeqsUpTo(FilterValues, MaxValues)]
    /\ filter_condition = NotConstructed
    /\ filter_sql = NoText
    /\ TranspilerIdle
    /\ DropIdle
    /\ InsertIdle
    /\ ConditionIdle
    /\ SchemaIdle
    /\ ConversionIdle
    /\ AliasIdle
    /\ WriteIdle
    /\ ReturningIdle
    /\ CacheIdle
    /\ ConcurrentIdle
    /\ TransactionIdle

\* condition = column.filters.<MEMBER>(*values)
ConstructFilter ==
    /\ filter_condition.status = "none"
    /\ \E uuids \in [1..Len(filter_input.right) -> Uuids] :
          filter_condition' =
              SQLFilter__init__(filter_input.left, filter_input.operator,
                                filter_input.right, uuids)
    /\ UNCHANGED <<filter_input, filter_sql>>
    /\ UNCHANGED <<transpiler_vars, drop_vars, insert_vars, condition_vars, schema_vars, conversion_vars, alias_vars, write_vars, returning_vars, cache_vars, concurrent_vars, transaction_vars>>

\* condition.to_sql()
RenderFilter ==
    /\ filter_condition.status = "ok"
    /\ filter_sql.status = "none"
    /\ filter_sql' = SQLCondition_to_sql(filter_condition)
    /\ UNCHANGED <<filter_input, filter_condition>>
    /\ UNCHANGED <<transpiler_vars, drop_vars, insert_vars, condition_vars, schema_vars, conversion_vars, alias_vars, write_vars, returning_vars, cache_vars, concurrent_vars, transaction_vars>>

NextFilter == ConstructFilter \/ RenderFilter

SpecFilter == InitFilter /\ [][NextFilter]_vars

\* a column of the call has no table: the operand, or one of the values
HasUnattachedColumn ==
    \/ filter_input.left.table = <<>>
    \/ \E i \in 1..Len(filter_input.right) :
          /\ filter_input.right[i].kind = "column"
          /\ filter_input.right[i].column.table = <<>>

\* C21: the construction of a condition whose operand, or one of whose
\* values, is a column without a table fails, whatever the operator is, IS
\* NULL and IS NOT NULL included; no such condition gets as far as being
\* rendered.
C21_UnattachedFailsAtConstruction ==
    HasUnattachedColumn =>
        /\ filter_condition.status # "ok"
        /\ filter_sql.status = "none"

\* the operator piece of the text of a rendered condition
OperatorText == filter_sql.text[Len(fully_qualified_name_of(filter_input.left).text) + 2]

\* the texts the same call renders with the member replaced by another
TextsOf(member) ==
    {SQLCondition_to_sql(
         SQLFilter__init__(filter_input.left, member, filter_input.right,
                           uuids)).text :
        uuids \in [1..Len(filter_input.right) -> Uuids]}

\* C22: a rendered GREATER_THAN_OR_EQUAL condition has the operator text
\* '>=', a rendered LESS_THAN_OR_EQUAL condition has '<=', and the text of
\* the one is never a text of the other for the same column and value.
C22_DistinctOperatorTexts ==
    filter_sql.status = "ok" =>
        /\ filter_input.operator = "GREATER_THAN_OR_EQUAL" =>
              /\ OperatorText = ">="
              /\ filter_sql.text \notin TextsOf("LESS_THAN_OR_EQUAL")
        /\ filter_input.operator = "LESS_THAN_OR_EQUAL" =>
              /\ OperatorText = "<="
              /\ filter_sql.text \notin TextsOf("GREATER_THAN_OR_EQUAL")

(***************************************************************************)
(* The cache of parsed templates.  SQLTranspiler._cache is a class         *)
(* attribute: every transpiler reads and fills the same dictionary.  A     *)
(* parsed statement is an object; its identity is its index among the      *)
(* objects.                                                                *)
(***************************************************************************)
MaxCalls == 3         \* transpile_sql calls of one application

\* the statements the application's templates are the texts of
CachedStatements ==
    {[kind |-> kind, returning |-> returning, where |-> FALSE] :
        kind \in {"Insert", "Delete"},
        returning \in {NoReturning,
                       [present |-> TRUE,
                        columns |-> <<[table |-> <<"u","s","e","r","s">>,
                                       this |-> <<"i","d">>]>>]}}

\* the templates, and the source dialects they are handed over with
CachedTemplates == {GenerateSql(e, SQLITE) : e \in CachedStatements}
SourceDialects == {SQLITE, "None"}

\* sqlglot.parse_one(sql, dialect): the statement that is written as the
\* text; the templates read the same with and without the source dialect
parse_one(text, source) ==
    CHOOSE e \in CachedStatements : GenerateSql(e, SQLITE) = text

\* c = [_cache, objects]: the entry of the key in the cache, 0 without one
CacheIndex(c, cache_key) ==
    IF \E i \in 1..Len(c._cache) : c._cache[i].key = cache_key
    THEN CHOOSE i \in 1..Len(c._cache) : c._cache[i].key = cache_key
    ELSE 0

\* SQLTranspiler._parse: the cache it leaves and the object it returns
_parse(c, text, input_dialect) ==
    LET cache_key == <<text, input_dialect>>
        at == CacheIndex(c, cache_key)
        objects == Append(c.objects, parse_one(text, input_dialect))
    IN IF at # 0
       THEN [c |-> c, parsed |-> c._cache[at].parsed_sql]
       ELSE [c |-> [_cache |-> Append(c._cache,
                                      [key |-> cache_key,
                                       parsed_sql |-> Len(objects)]),
                    objects |-> objects],
             parsed |-> Len(objects)]

\* a variant that updates the object it was handed
_update_parsed_sql_InPlace(c, parsed, target) ==
    LET result == _update_returning_and_output_clause(c.objects[parsed], target)
    IN [c |-> [c EXCEPT !.objects[parsed] = result.parsed_sql],
        status |-> result.status, parsed_sql |-> result.parsed_sql]

\* SQLTranspiler._update_parsed_sql: copy.deepcopy gives an object of its
\* own, and that one is updated and returned
_update_parsed_sql(c, parsed, target) ==
    LET copied == c.objects[parsed]
        result == _update_returning_and_output_clause(copied, target)
    IN [c |-> c, status |-> result.status, parsed_sql |-> result.parsed_sql]

\* SQLTranspiler(target).transpile_sql(sql, input_dialect)
SQLTranspiler_transpile_sql(c, text, input_dialect, target) ==
    LET parsed == _parse(c, text, input_dialect)
        result == _update_parsed_sql(parsed.c, parsed.parsed, target)
    IN [c |-> result.c,
        hit |-> CacheIndex(c, <<text, input_dialect>>) # 0,
        parsed |-> parsed.parsed,
        status |-> result.status,
        text |-> IF result.status # "ok" THEN <<>>
                 ELSE _update_output_clause(
                          GenerateSql(result.parsed_sql, target), target)]

EmptyCache == [_cache |-> <<>>, objects |-> <<>>]

InitCache ==
    /\ parse_cache = <<>>
    /\ expression_objects = <<>>
    /\ cache_call = NoCall
    /\ cache_calls = 0
    /\ TranspilerIdle
    /\ DropIdle
    /\ InsertIdle
    /\ ConditionIdle
    /\ SchemaIdle
    /\ ConversionIdle
    /\ AliasIdle
    /\ WriteIdle
    /\ ReturningIdle
    /\ FilterIdle
    /\ ConcurrentIdle
    /\ TransactionIdle

\* SQLTranspiler(target).transpile_sql(sql, input_dialect) by some
\* transpiler of the application
TranspileCached ==
    /\ cache_calls < MaxCalls
    /\ \E text \in CachedTemplates, source \in SourceDialects,
          target \in ESQLDialect :
          LET call == SQLTranspiler_transpile_sql(
                          [_cache |-> parse_cache,
                           objects |-> expression_objects],
                          text, source, target)
          IN /\ parse_cache' = call.c._cache
             /\ expression_objects' = call.c.objects
             /\ cache_call' = [sql |-> text, dialect |-> source,
                               target |-> target, hit |-> call.hit,
                               parsed |-> call.parsed,
                               status |-> call.status, text |-> call.text]
    /\ cache_calls' = cache_calls + 1
    /\ UNCHANGED <<transpiler_vars, drop_vars, insert_vars, condition_vars, schema_vars, conversion_vars, alias_vars, write_vars, returning_vars, filter_vars, concurrent_vars, transaction_vars>>

NextCache == TranspileCached

SpecCache == InitCache /\ [][NextCache]_vars

\* the keys of the cache, entry by entry
CacheKeys == [i \in 1..Len(parse_cache) |-> parse_cache[i].key]

\* what the last call gives with an empty cache
WithEmptyCache ==
    SQLTranspiler_transpile_sql(EmptyCache, cache_call.sql,
                                cache_call.dialect, cache_call.target)

\* the entry the cache holds for the key of the last call
EntryOfCall ==
    parse_cache[CacheIndex([_cache |-> parse_cache,
                            objects |-> expression_objects],
                           <<cache_call.sql, cache_call.dialect>>)]

\* C24: the cache holds one parsed statement per (template, source
\* dialect) and no template is parsed twice; the parse of a call returns
\* the object stored under the call's key; every stored statement is
\* still the statement its template parses to; and every call returns the
\* text it returns with an empty cache, whatever the calls before it and
\* their target dialects were.
C24_CacheNeverChangesAnAnswer ==
    /\ Injective(CacheKeys)
    /\ Len(expression_objects) = Len(parse_cache)
    /\ \A i \in 1..Len(parse_cache) :
          expression_objects[parse_cache[i].parsed_sql]
              = parse_one(parse_cache[i].key[1], parse_cache[i].key[2])
    /\ cache_call.status # "none" =>
          /\ EntryOfCall.parsed_sql = cache_call.parsed
          /\ ~cache_call.hit => cache_call.parsed = Len(expression_objects)
          /\ cache_call.status = WithEmptyCache.status
          /\ cache_call.text = WithEmptyCache.text

\* every call of the application transpiled the same template with a
\* RETURNING clause, the last one for SQLite with the statement taken from
\* the cache
C24_Witness ==
    /\ cache_calls = MaxCalls
    /\ cache_call.hit
    /\ cache_call.status = "ok"
    /\ cache_call.target = SQLITE
    /\ expression_objects[cache_call.parsed].returning.present
    /\ Len(parse_cache) = 1

(***************************************************************************)
(* Two threads that each construct a condition on the same column.  A      *)
(* step of a thread is a statement of SQLCondition.__init__ or an          *)
(* iteration of the loop of _parse_values; the steps of the threads        *)
(* interleave in any order.                                                *)
(***************************************************************************)
Threads == {1, 2}

\* the constructor calls of the threads: the operator member and the values
ConcurrentCalls ==
    {[operator |-> "EQUAL", right |-> <<PlainValue(18)>>],
     [operator |-> "EQUAL", right |-> <<PlainValue(65)>>],
     [operator |-> "BETWEEN", right |-> <<PlainValue(18), PlainValue(65)>>],
     [operator |-> "IN", right |-> <<PlainValue(18), ColumnValue(ColumnObject(K, TABLE))>>],
     [operator |-> "IS_NULL", right |-> <<>>],
     [operator |-> "LIKE", right |-> <<>>]}

\* the body of the loop of SQLCondition._parse_values for one value, on the
\* condition object self under construction
ParseValue(self, value, uuid) ==
    IF value.kind = "column"
    THEN LET name == fully_qualified_name_of(value.column)
         IN IF name.status # "ok"
            THEN ConditionObject(name.status, self.left, self.operator, <<>>, <<>>)
            ELSE [self EXCEPT !._values_to_sql = Append(@, name.text)]
    ELSE LET parameter == generate_parameter_name_of(self.left, uuid)
         IN IF parameter.status # "ok"
            THEN ConditionObject(parameter.status, self.left, self.operator, <<>>, <<>>)
            ELSE [self EXCEPT
                     !._values_to_sql = Append(@, <<":">> \o parameter.text),
                     !.parameters =
                         DictSet(@, parameter.text,
                                 to_database_value(self.left.name, value.plain))]

InitConcurrent ==
    /\ shared_column = ColumnObject(W, TABLE)
    /\ constructions \in
           [Threads -> {[call |-> call, pc |-> "called", draws |-> <<>>,
                         condition |-> NotConstructed] :
                           call \in ConcurrentCalls}]
    /\ TranspilerIdle
    /\ DropIdle
    /\ InsertIdle
    /\ ConditionIdle
    /\ SchemaIdle
    /\ ConversionIdle
    /\ AliasIdle
    /\ WriteIdle
    /\ ReturningIdle
    /\ FilterIdle
    /\ CacheIdle
    /\ TransactionIdle

\* self.left = left ... self._values_to_sql = []
AssignFields(t) ==
    /\ constructions[t].pc = "called"
    /\ constructions' =
           [constructions EXCEPT
               ![t].pc = "validate",
               ![t].condition =
                   ConditionObject("constructing", shared_column,
                                   ESQLComparisonOperator[constructions[t].call.operator],
                                   <<>>, <<>>)]
    /\ UNCHANGED shared_column
    /\ UNCHANGED <<transpiler_vars, drop_vars, insert_vars, condition_vars, schema_vars, conversion_vars, alias_vars, write_vars, returning_vars, filter_vars, cache_vars, transaction_vars>>

\* self._validate_value_count()
ValidateValueCount(t) ==
    /\ constructions[t].pc = "validate"
    /\ constructions' =
           IF _validate_value_count(constructions[t].condition.operator,
                                    constructions[t].call.right)
           THEN [constructions EXCEPT ![t].pc = "parse"]
           ELSE [constructions EXCEPT
                    ![t].pc = "raised",
                    ![t].condition.status = "AssertionError"]
    /\ UNCHANGED shared_column
    /\ UNCHANGED <<transpiler_vars, drop_vars, insert_vars, condition_vars, schema_vars, conversion_vars, alias_vars, write_vars, returning_vars, filter_vars, cache_vars, transaction_vars>>

\* one iteration of the loop of _parse_values; uuid4() is drawn for a
\* plain value only
ParseNextValue(t) ==
    /\ constructions[t].pc = "parse"
    /\ Len(constructions[t].draws) < Len(constructions[t].call.right)
    /\ LET value == constructions[t].call.right[Len(constructions[t].draws) + 1]
       IN \E uuid \in IF value.kind = "plain" THEN Uuids ELSE {<<>>} :
             LET parsed == ParseValue(constructions[t].condition, value, uuid)
             IN constructions' =
                    [constructions EXCEPT
                        ![t].draws = Append(@, uuid),
                        ![t].condition = parsed,
                        ![t].pc = IF parsed.status = "constructing"
                                  THEN "parse" ELSE "raised"]
    /\ UNCHANGED shared_column
    /\ UNCHANGED <<transpiler_vars, drop_vars, insert_vars, condition_vars, schema_vars, conversion_vars, alias_vars, write_vars, returning_vars, filter_vars, cache_vars, transaction_vars>>

\* the loop is over, the left side is no SELECT statement, __init__ returns
ReturnCondition(t) ==
    /\ constructions[t].pc = "parse"
    /\ Len(constructions[t].draws) = Len(constructions[t].call.right)
    /\ constructions' =
           [constructions EXCEPT ![t].pc = "returned",
                                 ![t].condition.status = "ok"]
    /\ UNCHANGED shared_column
    /\ UNCHANGED <<transpiler_vars, drop_vars, insert_vars, condition_vars, schema_vars, conversion_vars, alias_vars, write_vars, returning_vars, filter_vars, cache_vars, transaction_vars>>

NextConcurrent ==
    \E t \in Threads :
        \/ AssignFields(t)
        \/ ValidateValueCount(t)
        \/ ParseNextValue(t)
        \/ ReturnCondition(t)

SpecConcurrent == InitConcurrent /\ [][NextConcurrent]_vars

\* the constructor call of a thread has returned or raised
Ended(t) == constructions[t].pc \in {"returned", "raised"}

\* what the call of the thread gives when it runs on its own, with the
\* same outcomes of uuid4()
AloneGives(t) ==
    SQLCondition__init__(ColumnObject(W, TABLE),
                         ESQLComparisonOperator[constructions[t].call.operator],
                         constructions[t].call.right, constructions[t].draws)

\* the parameter names of the condition of a thread
NamesOf(t) == Range(DictKeys(constructions[t].condition.parameters))

\* C28: two constructions on one column, interleaved in any way, leave the
\* column as it was, give each thread the condition -- texts, parameter
\* names and values -- that its call gives on its own, and give the two
\* conditions no parameter name in common.
C28_ConcurrentConstructionIsSafe ==
    /\ shared_column = ColumnObject(W, TABLE)
    /\ \A t \in Threads :
          Ended(t) => constructions[t].condition = AloneGives(t)
    /\ (Ended(1) /\ Ended(2)) => NamesOf(1) \cap NamesOf(2) = {}

(***************************************************************************)
(* The calls a method of SQLDatabase makes on its connection: execute for  *)
(* a statement, commit and rollback.                                       *)
(***************************************************************************)
MaxTables == 3        \* tables of the database of a call over all tables

\* the methods that execute statements
RecordOperations ==
    {"insert_records", "select_records", "update_records", "delete_records"}
TableOperations == {"create_table", "drop_table"}
AllTablesOperations == {"create_all_tables", "drop_all_tables"}

\* SQLDatabase.commit
SQLDatabase_commit(calls) == Append(calls, "commit")

\* a variant that commits without waiting for the end of the for loop
CommitsAfter_EveryTable(operation, done, planned) ==
    operation \in AllTablesOperations

\* whether the call commits at this point: create_all_tables and
\* drop_all_tables do, once their for loop is over
CommitsAfter(operation, done, planned) ==
    operation \in AllTablesOperations /\ Len(done) = Len(planned)

InitTransaction ==
    /\ tx_operation \in RecordOperations \cup TableOperations
                            \cup AllTablesOperations
    /\ tx_tables \in IF tx_operation \in AllTablesOperations
                     THEN SUBSET (1..MaxTables) ELSE {{}}
    /\ tx_references \in IF tx_operation = "drop_all_tables"
                         THEN ReferenceGraphs(tx_tables)
                         ELSE {[t \in tx_tables |-> {}]}
    /\ tx_pc = IF tx_operation = "drop_all_tables"
               THEN "ordering" ELSE "executing"
    /\ tx_unsorted = IF tx_operation = "drop_all_tables" THEN tx_tables ELSE {}
    /\ tx_sorted \in
           IF tx_operation = "create_all_tables" THEN Orderings(tx_tables)
           ELSE IF tx_operation = "drop_all_tables" THEN {<<>>}
           ELSE IF tx_operation = "insert_records"
           THEN {[i \in 1..n |-> 0] : n \in 1..MaxBatch}
           ELSE {<<0>>}
    /\ tx_done = <<>>
    /\ tx_calls = <<>>
    /\ tx_raised = ""
    /\ TranspilerIdle
    /\ DropIdle
    /\ InsertIdle
    /\ ConditionIdle
    /\ SchemaIdle
    /\ ConversionIdle
    /\ AliasIdle
    /\ WriteIdle
    /\ ReturningIdle
    /\ FilterIdle
    /\ CacheIdle
    /\ ConcurrentIdle

\* one iteration of the while loop of drop_all_tables
OrderTables ==
    /\ tx_pc = "ordering"
    /\ tx_unsorted # {}
    /\ LET referenced == UNION {tx_references[t] : t \in tx_unsorted}
           unreferenced_tables == tx_unsorted \ referenced
       IN /\ \E order \in Orderings(unreferenced_tables) :
                tx_sorted' = tx_sorted \o order
          /\ tx_unsorted' = referenced
    /\ UNCHANGED <<tx_operation, tx_tables, tx_references, tx_pc, tx_done,
                   tx_calls, tx_raised>>
    /\ UNCHANGED <<transpiler_vars, drop_vars, insert_vars, condition_vars, schema_vars, conversion_vars, alias_vars, write_vars, returning_vars, filter_vars, cache_vars, concurrent_vars>>

\* the while loop of drop_all_tables is left
StartDropping ==
    /\ tx_pc = "ordering"
    /\ tx_unsorted = {}
    /\ tx_pc' = "executing"
    /\ UNCHANGED <<tx_operation, tx_tables, tx_references, tx_unsorted,
                   tx_sorted, tx_done, tx_calls, tx_raised>>
    /\ UNCHANGED <<transpiler_vars, drop_vars, insert_vars, condition_vars, schema_vars, conversion_vars, alias_vars, write_vars, returning_vars, filter_vars, cache_vars, concurrent_vars>>

\* self._execute_statement(statement) for the next statement of the call;
\* the driver answers with a cursor or raises, and what it raises ends the
\* call
ExecuteStatement ==
    /\ tx_pc = "executing"
    /\ Len(tx_done) < Len(tx_sorted)
    /\ \E answer \in {Cursor(FALSE, <<>>)} \cup
                         {DriverRaises(e) : e \in DriverExceptions} :
          LET call == SQLDatabase_execute(tx_calls, answer)
          IN /\ tx_calls' = call.calls
             /\ IF call.raised # ""
                THEN /\ tx_pc' = "raised"
                     /\ tx_raised' = call.raised
                     /\ UNCHANGED tx_done
                ELSE /\ tx_done' = Append(tx_done, tx_sorted[Len(tx_done) + 1])
                     /\ UNCHANGED <<tx_pc, tx_raised>>
    /\ UNCHANGED <<tx_operation, tx_tables, tx_references, tx_unsorted,
                   tx_sorted>>
    /\ UNCHANGED <<transpiler_vars, drop_vars, insert_vars, condition_vars, schema_vars, conversion_vars, alias_vars, write_vars, returning_vars, filter_vars, cache_vars, concurrent_vars>>

\* self.commit() at the end of create_all_tables and drop_all_tables, and
\* the return
CommitAndReturn ==
    /\ tx_pc = "executing"
    /\ CommitsAfter(tx_operation, tx_done, tx_sorted)
    /\ tx_calls' = SQLDatabase_commit(tx_calls)
    /\ tx_pc' = "returned"
    /\ UNCHANGED <<tx_operation, tx_tables, tx_references, tx_unsorted,
                   tx_sorted, tx_done, tx_raised>>
    /\ UNCHANGED <<transpiler_vars, drop_vars, insert_vars, condition_vars, schema_vars, conversion_vars, alias_vars, write_vars, returning_vars, filter_vars, cache_vars, concurrent_vars>>

\* the return of the other methods: the rows are read from the cursor
ReturnFetched ==
    /\ tx_pc = "executing"
    /\ tx_operation \notin AllTablesOperations
    /\ Len(tx_done) = Len(tx_sorted)
    /\ tx_pc' = "returned"
    /\ UNCHANGED <<tx_operation, tx_tables, tx_references, tx_unsorted,
                   tx_sorted, tx_done, tx_calls, tx_raised>>
    /\ UNCHANGED <<transpiler_vars, drop_vars, insert_vars, condition_vars, schema_vars, conversion_vars, alias_vars, write_vars, returning_vars, filter_vars, cache_vars, concurrent_vars>>

NextTransaction ==
    \/ OrderTables
    \/ StartDropping
    \/ ExecuteStatement
    \/ CommitAndReturn
    \/ ReturnFetched

SpecTransaction == InitTransaction /\ [][NextTransaction]_vars

\* the call runs on its own thread of control and takes its next step
\* whenever it has one
SpecTransactionFair == SpecTransaction /\ WF_vars(NextTransaction)

\* how often the connection was asked for the call
Issued(name) == Cardinality({i \in 1..Len(tx_calls) : tx_calls[i] = name})

\* the foreign-key graph has a cycle: some tables each reference one of
\* them
HasCycle ==
    \E S \in (SUBSET tx_tables) \ {{}} :
        \A t \in S : tx_references[t] \cap S # {}

\* what holds of the calls on the connection at every moment of a call
CommitDiscipline ==
    /\ Issued("rollback") = 0
    /\ tx_operation \notin AllTablesOperations => Issued("commit") = 0
    /\ tx_operation \in AllTablesOperations =>
          /\ Issued("commit") = 1 <=> tx_pc = "returned"
          /\ Issued("commit") = 0 <=> tx_pc # "returned"
          /\ tx_pc = "returned" =>
                /\ Range(tx_done) = tx_tables
                /\ tx_calls = [i \in 1..Cardinality(tx_tables) |-> "execute"]
                                  \o <<"commit">>
          /\ tx_pc = "raised" =>
                tx_calls = [i \in 1..(Len(tx_done) + 1) |-> "execute"]

\* the call is under way
UnderWay == tx_pc \in {"ordering", "executing"}

\* C30 as claimed: the methods for records and for one table issue no
\* commit and no rollback; every create_all_tables and drop_all_tables call
\* issues one commit, after the statements of all its tables, unless one
\* of the statements raised, and then it issues none.
C30_AsClaimed ==
    /\ []CommitDiscipline
    /\ (UnderWay /\ tx_operation \in AllTablesOperations)
           ~> (tx_pc = "raised" \/ Issued("commit") = 1)

\* C30 as amended: the methods for records and for one table issue no
\* commit and no rollback; a create_all_tables call, and a drop_all_tables
\* call on tables whose foreign keys form no cycle, issues one commit,
\* after the statements of all its tables, unless one of the statements
\* raised, and then it issues none; a drop_all_tables call on tables with
\* a cycle among their foreign keys executes nothing and issues none.
C30_OneCommitAfterAllTables ==
    /\ []CommitDiscipline
    /\ (UnderWay /\ tx_operation \in AllTablesOperations /\ ~HasCycle)
           ~> (tx_pc = "raised" \/ Issued("commit") = 1)
    /\ [](HasCycle => tx_calls = <<>> /\ tx_pc = "ordering")

\* drop_all_tables has dropped two tables, the referencing one first, and
\* committed
C30_Witness ==
    /\ tx_operation = "drop_all_tables"
    /\ tx_pc = "returned"
    /\ tx_references = (1 :> {2}) @@ (2 :> {})
    /\ tx_done = <<1, 2>>
    /\ tx_calls = <<"execute", "execute", "commit">>

=============================================================================
